---- MODULE Spec2Model ----
(***************************************************************************)
(* Frame stores (Flat "Video", Arena "SVideo", WASM "SVideo"), the binary  *)
(* frame codec and the transform engine of src/lib/video_functions.c and   *)
(* src/lib/video_functions_wasm.c, and the streaming decode adapter of     *)
(* src/lib/video_codec.c.                                                  *)
(*                                                                         *)
(* Bytes are integers 0..255.  A file is a sequence of bytes.  Addresses   *)
(* inside an arena are byte offsets from the start of the one allocated    *)
(* block (memory_block); offset k of a C buffer is element k+1 of the      *)
(* sequence that models it.                                                *)
(***************************************************************************)
EXTENDS Integers, Sequences, FiniteSets, TLC

\* ------------------------------------------------------------------------
\* Bounds of the model
MaxFrames == 3
MaxOps == 2

\* Program constants
MaxChannels == 3
SizeofLong == 8
SizeofFrame == 8
SizeofChannel == 8
HeaderSize == 11
Lanes == 32
ReverseChunk == 100
SwapChunk == 50
ClipChunk == 25
ScaleChunk == 25

NULL == [null |-> TRUE]

\* ------------------------------------------------------------------------
\* Inputs of the model: shapes <<num_frames, channels, height, width>>,
\* payload patterns, transform arguments.
SmallShapes ==
    {<<n, 2, 2, 2>> : n \in 0..MaxFrames} \cup {<<2, c, 2, 2>> : c \in 1..MaxChannels}

WideShapes == {<<2, 2, 5, 7>>, <<1, 1, 4, 8>>, <<2, 1, 5, 13>>, <<1, 3, 1, 1>>}

Ramp == [base |-> 0, step |-> 1]

Spread == [base |-> 250, step |-> 37]

\* <<shape, payload pattern>> of the input files
Inputs ==
    {<<shape, Ramp>> : shape \in SmallShapes \cup WideShapes}
        \cup {<<<<2, 2, 5, 7>>, Spread>>}

ChannelArgs == 0..MaxChannels

SwapArgs == {<<0, 0>>, <<0, 1>>, <<1, 0>>, <<0, 2>>, <<1, 2>>, <<0, 3>>, <<3, 1>>}

ClipBounds == {<<10, 20>>, <<20, 10>>, <<130, 200>>}

ScaleFactors == {[num |-> 1, den |-> 1], [num |-> 3, den |-> 2], [num |-> -1, den |-> 1]}

CastModes == {"wrap", "saturate"}

\* ------------------------------------------------------------------------
\* Host-native (little-endian, two's complement) long, as fwrite/fread of
\* &video->num_frames move it.
RECURSIVE LEBytes(_, _)
LEBytes(n, k) ==
    IF k = 0 THEN <<>> ELSE <<n % 256>> \o LEBytes(n \div 256, k - 1)

WriteLong(n) ==
    IF n >= 0
    THEN LEBytes(n, SizeofLong)
    ELSE [i \in 1..SizeofLong |-> 255 - LEBytes(-n - 1, SizeofLong)[i]]

RECURSIVE LEValue(_)
LEValue(b) ==
    IF b = <<>> THEN 0 ELSE b[1] + 256 * LEValue(Tail(b))

\* The integers of the model hold -2^31 .. 2^31 - 1: a long in that range
\* (its upper four bytes are the sign extension of the lower four)
LongFits(b) ==
    \/ b[4] < 128 /\ \A i \in 5..SizeofLong : b[i] = 0
    \/ b[4] >= 128 /\ \A i \in 5..SizeofLong : b[i] = 255

\* the value of a long; a long out of the model's range is kept as its bytes
ReadLong(b) ==
    IF ~LongFits(b) THEN [wide |-> b]
    ELSE IF b[SizeofLong] >= 128
    THEN -(1 + LEValue([i \in 1..SizeofLong |-> 255 - b[i]]))
    ELSE LEValue(b)

\* ------------------------------------------------------------------------
\* size_t arithmetic.  A size_t is its SizeofSizeT little-endian bytes, and
\* every operation is taken modulo 2^64 as the machine does; the conversion of
\* a long to size_t keeps the bytes of the long.
SizeofSizeT == 8

SizeT(n) == LEBytes(n, SizeofSizeT)

\* digit k (from 1) of the product before carries: the sum of a[i] * b[k+1-i]
RECURSIVE DigitSum(_, _, _, _)
DigitSum(a, b, k, i) ==
    IF i > Len(a) THEN 0
    ELSE (IF k + 1 - i \in 1..Len(b) THEN a[i] * b[k + 1 - i] ELSE 0)
            + DigitSum(a, b, k, i + 1)

RECURSIVE MulCarry(_, _, _, _)
MulCarry(a, b, k, carry) ==
    IF k > Len(a) + Len(b) THEN <<>>
    ELSE LET t == DigitSum(a, b, k, 1) + carry
         IN  <<t % 256>> \o MulCarry(a, b, k + 1, t \div 256)

\* the exact product of two byte strings, Len(a) + Len(b) bytes
WideMul(a, b) == MulCarry(a, b, 1, 0)

\* a * b in size_t
SizeMul(a, b) == SubSeq(WideMul(a, b), 1, SizeofSizeT)

RECURSIVE AddCarry(_, _, _, _)
AddCarry(a, b, i, carry) ==
    IF i > SizeofSizeT THEN <<>>
    ELSE LET t == a[i] + b[i] + carry
         IN  <<t % 256>> \o AddCarry(a, b, i + 1, t \div 256)

\* a + b in size_t
SizeAdd(a, b) == AddCarry(a, b, 1, 0)

\* a size_t the model's integers hold, and its value
SizeFits(a) == a[4] < 128 /\ \A i \in 5..SizeofSizeT : a[i] = 0

SizeValue(a) == LEValue(SubSeq(a, 1, 4))

\* a <= n for an integer n of the model
SizeLeq(a, n) == SizeFits(a) /\ SizeValue(a) <= n

\* the long is negative
LongNegative(b) == b[SizeofLong] >= 128

\* |n| of a long, as a size_t (2^63 for the least long)
LongMagnitude(b) ==
    IF LongNegative(b)
    THEN SizeAdd([i \in 1..SizeofLong |-> 255 - b[i]], SizeT(1))
    ELSE b

\* the signed product n * k of a long and an unsigned char promoted to long
\* does not fit a long (the multiplication is then undefined)
LongMulOverflows(b, k) ==
    LET wide == WideMul(LongMagnitude(b), <<k>>)
        reaches == wide[SizeofLong + 1] > 0 \/ wide[SizeofLong] >= 128
        least == [i \in 1..(SizeofLong + 1) |-> IF i = SizeofLong THEN 128 ELSE 0]
    IN  IF LongNegative(b) THEN reaches /\ wide # least ELSE reaches

\* The input file of a shape and a payload pattern.
Payload(shape, seed) ==
    [k \in 1..(shape[1] * shape[2] * shape[3] * shape[4]) |->
        (seed.base + (k - 1) * seed.step) % 256]

InputFile(shape, seed) ==
    WriteLong(shape[1]) \o <<shape[2], shape[3], shape[4]>> \o Payload(shape, seed)

\* ------------------------------------------------------------------------
\* CLAMP with both comparisons inverted
CLAMP_inverted(value, min, max) ==
    IF value > min THEN min ELSE IF value < max THEN max ELSE value

\* CLAMP macro
CLAMP(value, min, max) ==
    IF value < min THEN min ELSE IF value > max THEN max ELSE value

\* memcpy-style helpers on a byte buffer (offsets are 0-based)
InRange(k, off, len) == off <= k /\ k < off + len

\* the copy back from the temporary is missing
MemSwap_oneway(data, off1, off2, len) ==
    [k \in 1..Len(data) |->
        IF InRange(k - 1, off1, len) THEN data[k - off1 + off2] ELSE data[k]]

MemSwap(data, off1, off2, len) ==
    [k \in 1..Len(data) |->
        IF InRange(k - 1, off1, len) THEN data[k - off1 + off2]
        ELSE IF InRange(k - 1, off2, len) THEN data[k - off2 + off1]
        ELSE data[k]]

\* ------------------------------------------------------------------------
\* What a decode or encode call holds: the allocations it made and has not
\* freed, and whether its FILE is open.  env says which of the calls to the
\* C library succeed.
NoResources == [live |-> {}, open |-> FALSE]

Fopen(r) == [r EXCEPT !.open = TRUE]

Fclose(r) == [r EXCEPT !.open = FALSE]

Malloc(r, name) == [r EXCEPT !.live = @ \cup {name}]

\* the call to free is missing
Free_skipped(r, name) == r

Free(r, name) == [r EXCEPT !.live = @ \ {name}]

\* what a decode call gives back: the store (or NULL) and what it holds
Return(store, r) == [ret |-> store, live |-> r.live, open |-> r.open]

\* env.overflow is what a signed multiplication that overflows does in the
\* build: it wraps, or it traps
SignedOverflowOutcomes == {"wrap", "trap"}

NoFault == [fopen |-> TRUE, malloc_store |-> TRUE, malloc_data |-> TRUE,
            overflow |-> "wrap"]

\* malloc(size) returns a block: the library has memory (granted) and the
\* request is below 2^31 bytes, the largest block of the model
MallocGrants(granted, size) == granted /\ SizeFits(size)

\* the result of a call that dereferences a null pointer or writes past the
\* end of its block: the process stops inside the call
CRASH == [crash |-> TRUE]

\* The output file of an encode call: f.content is what the file holds, f.ok
\* is FALSE once an fwrite returned short.  env.full says that the device
\* takes env.space bytes and no more; the fwrite that does not fit fails after
\* the bytes that fit.
Created == [content |-> <<>>, ok |-> TRUE]

Fwrite(f, bytes, env) ==
    IF ~f.ok THEN f
    ELSE IF env.full /\ Len(f.content) + Len(bytes) > env.space
         THEN [content |-> f.content \o SubSeq(bytes, 1, env.space - Len(f.content)),
               ok |-> FALSE]
    ELSE [content |-> f.content \o bytes, ok |-> TRUE]

\* what an encode call gives back and leaves at the path (NULL: no file)
Written(f) == [ret |-> IF f.ok THEN 0 ELSE -1, file |-> f.content]

NotWritten == [ret |-> -1, file |-> NULL]

NoEncodeFault == [fopen |-> TRUE, full |-> FALSE, space |-> 0, malloc |-> TRUE]

\* ------------------------------------------------------------------------
\* Flat layout (Video)
FlatFrameSize(video) == video.channels * video.height * video.width

ChannelSize(video) == video.height * video.width

decode(file, env) ==
    LET opened == Fopen(NoResources)
        stored == Malloc(opened, "video")
        loaded == Malloc(stored, "data")
    IN  IF ~env.fopen THEN Return(NULL, NoResources)
        ELSE IF ~env.malloc_store THEN Return(NULL, Fclose(opened))
        ELSE IF Len(file) < HeaderSize
             THEN Return(NULL, Fclose(Free(stored, "video")))
        ELSE LET num_frames == ReadLong(SubSeq(file, 1, SizeofLong))
                 channels == file[SizeofLong + 1]
                 height == file[SizeofLong + 2]
                 width == file[SizeofLong + 3]
                 frame_size == channels * height * width
                 total_size == SizeMul(SizeT(frame_size), SubSeq(file, 1, SizeofLong))
             IN  IF ~MallocGrants(env.malloc_data, total_size)
                 THEN Return(NULL, Fclose(Free(stored, "video")))
                 ELSE IF ~SizeLeq(total_size, Len(file) - HeaderSize)
                 THEN Return(NULL, Fclose(Free(Free(loaded, "data"), "video")))
                 ELSE Return([num_frames |-> num_frames, channels |-> channels,
                              height |-> height, width |-> width,
                              data |-> SubSeq(file, HeaderSize + 1,
                                              HeaderSize + SizeValue(total_size))],
                             Fclose(loaded))

\* the Memory-lean store (MVideo) has the fields of Video and decode_M the
\* statements of decode
decode_M(file, env) ==
    LET opened == Fopen(NoResources)
        stored == Malloc(opened, "video")
        loaded == Malloc(stored, "data")
    IN  IF ~env.fopen THEN Return(NULL, NoResources)
        ELSE IF ~env.malloc_store THEN Return(NULL, Fclose(opened))
        ELSE IF Len(file) < HeaderSize
             THEN Return(NULL, Fclose(Free(stored, "video")))
        ELSE LET num_frames == ReadLong(SubSeq(file, 1, SizeofLong))
                 channels == file[SizeofLong + 1]
                 height == file[SizeofLong + 2]
                 width == file[SizeofLong + 3]
                 frame_size == channels * height * width
                 total_size == SizeMul(SizeT(frame_size), SubSeq(file, 1, SizeofLong))
             IN  IF ~MallocGrants(env.malloc_data, total_size)
                 THEN Return(NULL, Fclose(Free(stored, "video")))
                 ELSE IF ~SizeLeq(total_size, Len(file) - HeaderSize)
                 THEN Return(NULL, Fclose(Free(Free(loaded, "data"), "video")))
                 ELSE Return([num_frames |-> num_frames, channels |-> channels,
                              height |-> height, width |-> width,
                              data |-> SubSeq(file, HeaderSize + 1,
                                              HeaderSize + SizeValue(total_size))],
                             Fclose(loaded))

\* width is written before height
WriteHeader_swapped(f, video, env) ==
    Fwrite(Fwrite(Fwrite(Fwrite(f, WriteLong(video.num_frames), env),
                         <<video.channels>>, env),
                  <<video.width>>, env),
           <<video.height>>, env)

\* the four header fields, each with its own fwrite
WriteHeader(f, video, env) ==
    Fwrite(Fwrite(Fwrite(Fwrite(f, WriteLong(video.num_frames), env),
                         <<video.channels>>, env),
                  <<video.height>>, env),
           <<video.width>>, env)

encode(video, env) ==
    IF video = NULL THEN NotWritten
    ELSE IF ~env.fopen THEN NotWritten
    ELSE Written(Fwrite(WriteHeader(Created, video, env),
                        SubSeq(video.data, 1, FlatFrameSize(video) * video.num_frames),
                        env))

encode_M(video, env) ==
    IF video = NULL THEN NotWritten
    ELSE IF ~env.fopen THEN NotWritten
    ELSE Written(Fwrite(WriteHeader(Created, video, env),
                        SubSeq(video.data, 1, FlatFrameSize(video) * video.num_frames),
                        env))

\* the loop runs over all frames instead of the first half
RECURSIVE reverse_loop_full(_, _, _)
reverse_loop_full(video, data, i) ==
    IF i < video.num_frames
    THEN reverse_loop_full(video,
            MemSwap(data, i * FlatFrameSize(video),
                    (video.num_frames - 1 - i) * FlatFrameSize(video),
                    FlatFrameSize(video)),
            i + 1)
    ELSE data

RECURSIVE reverse_loop(_, _, _)
reverse_loop(video, data, i) ==
    IF i < video.num_frames \div 2
    THEN reverse_loop(video,
            MemSwap(data, i * FlatFrameSize(video),
                    (video.num_frames - 1 - i) * FlatFrameSize(video),
                    FlatFrameSize(video)),
            i + 1)
    ELSE data

\* temp: whether malloc(frame_size) for the swap buffer succeeded
reverse(video, temp) ==
    IF video = NULL THEN video
    ELSE IF ~temp THEN video
    ELSE [video EXCEPT !.data = reverse_loop(video, video.data, 0)]

RECURSIVE swap_channels_loop(_, _, _, _, _)
swap_channels_loop(video, data, channel1, channel2, frame_idx) ==
    IF frame_idx < video.num_frames
    THEN swap_channels_loop(video,
            MemSwap(data,
                    frame_idx * FlatFrameSize(video) + channel1 * ChannelSize(video),
                    frame_idx * FlatFrameSize(video) + channel2 * ChannelSize(video),
                    ChannelSize(video)),
            channel1, channel2, frame_idx + 1)
    ELSE data

swap_channels(video, channel1, channel2) ==
    IF video = NULL THEN video
    ELSE IF channel1 >= video.channels \/ channel2 >= video.channels THEN video
    ELSE [video EXCEPT !.data =
            swap_channels_loop(video, video.data, channel1, channel2, 0)]

\* the offset lacks the channel term and the loop clips the whole frame
RECURSIVE clip_channel_loop_wholeframe(_, _, _, _, _, _)
clip_channel_loop_wholeframe(video, data, channel, min_val, max_val, frame_idx) ==
    IF frame_idx < video.num_frames
    THEN LET channel_offset == frame_idx * FlatFrameSize(video)
         IN  clip_channel_loop_wholeframe(video,
                [k \in 1..Len(data) |->
                    IF InRange(k - 1, channel_offset, FlatFrameSize(video))
                    THEN CLAMP(data[k], min_val, max_val)
                    ELSE data[k]],
                channel, min_val, max_val, frame_idx + 1)
    ELSE data

RECURSIVE clip_channel_loop(_, _, _, _, _, _)
clip_channel_loop(video, data, channel, min_val, max_val, frame_idx) ==
    IF frame_idx < video.num_frames
    THEN LET channel_offset ==
                 frame_idx * FlatFrameSize(video) + channel * ChannelSize(video)
         IN  clip_channel_loop(video,
                [k \in 1..Len(data) |->
                    IF InRange(k - 1, channel_offset, ChannelSize(video))
                    THEN CLAMP(data[k], min_val, max_val)
                    ELSE data[k]],
                channel, min_val, max_val, frame_idx + 1)
    ELSE data

\* the bound test accepts channel = channels
clip_channel_offbyone(video, channel, min_val, max_val) ==
    IF video = NULL THEN video
    ELSE IF channel > video.channels THEN video
    ELSE [video EXCEPT !.data =
            clip_channel_loop(video, video.data, channel, min_val, max_val, 0)]

clip_channel(video, channel, min_val, max_val) ==
    IF video = NULL THEN video
    ELSE IF channel >= video.channels THEN video
    ELSE [video EXCEPT !.data =
            clip_channel_loop(video, video.data, channel, min_val, max_val, 0)]

\* the sample is taken as a signed char before it is multiplied
ScaleSample_signed(sample, scale_factor) ==
    LET p == (IF sample >= 128 THEN sample - 256 ELSE sample) * scale_factor.num
    IN  IF p < 0 THEN 0
        ELSE IF p > 255 * scale_factor.den THEN 255
        ELSE p \div scale_factor.den

\* the product converted to a byte with no clamp: the low byte of the
\* truncated value
ScaleSample_wrapped(sample, scale_factor) ==
    LET p == sample * scale_factor.num
    IN  (IF p >= 0 THEN p \div scale_factor.den ELSE -((-p) \div scale_factor.den)) % 256

\* float scaled_value = sample * scale_factor; CLAMP(scaled_value, 0.0f, 255.0f)
\* converted to unsigned char (truncation toward zero).  scale_factor is the
\* rational num/den with den > 0, exactly representable as a float.
ScaleSample(sample, scale_factor) ==
    LET p == sample * scale_factor.num
    IN  IF p < 0 THEN 0
        ELSE IF p > 255 * scale_factor.den THEN 255
        ELSE p \div scale_factor.den

RECURSIVE scale_channel_loop(_, _, _, _, _)
scale_channel_loop(video, data, channel, scale_factor, frame_idx) ==
    IF frame_idx < video.num_frames
    THEN LET channel_offset ==
                 frame_idx * FlatFrameSize(video) + channel * ChannelSize(video)
         IN  scale_channel_loop(video,
                [k \in 1..Len(data) |->
                    IF InRange(k - 1, channel_offset, ChannelSize(video))
                    THEN ScaleSample(data[k], scale_factor)
                    ELSE data[k]],
                channel, scale_factor, frame_idx + 1)
    ELSE data

scale_channel(video, channel, scale_factor) ==
    IF video = NULL THEN video
    ELSE IF channel >= video.channels THEN video
    ELSE [video EXCEPT !.data =
            scale_channel_loop(video, video.data, channel, scale_factor, 0)]

\* ------------------------------------------------------------------------
\* Arena layout (SVideo).  svideo.frames is the address of the block (the
\* value later passed to free); svideo.block is the content of that block:
\* fr = the Frame records (each one Channel* value), ch = the Channel records
\* (each one data pointer), px = the pixel payload bytes.
channels_block_of(svideo) == svideo.frames + svideo.num_frames * SizeofFrame

data_block_of(svideo) ==
    channels_block_of(svideo) + svideo.num_frames * svideo.channels * SizeofChannel

\* frames[frame_idx].channels
FrameChannels(svideo, frame_idx) == svideo.block.fr[frame_idx + 1]

\* index in ch of the Channel record stored at address addr
ChannelSlot(svideo, addr) == (addr - channels_block_of(svideo)) \div SizeofChannel + 1

\* frames[frame_idx].channels[channel_idx].data
ChannelData(svideo, frame_idx, channel_idx) ==
    svideo.block.ch[ChannelSlot(svideo,
        FrameChannels(svideo, frame_idx) + channel_idx * SizeofChannel)]

\* index in px of the byte stored at address addr
PixelSlot(svideo, addr) == addr - data_block_of(svideo) + 1

\* the channel term of the data pointer is missing
ArenaBlock_nochannel(memory_block, num_frames, num_channels, frame_size, payload) ==
    LET chans_block == memory_block + num_frames * SizeofFrame
        dat_block == chans_block + num_frames * num_channels * SizeofChannel
    IN  [fr |-> [i \in 1..num_frames |->
                    chans_block + (i - 1) * num_channels * SizeofChannel],
         ch |-> [k \in 1..(num_frames * num_channels) |->
                    dat_block
                        + ((k - 1) \div num_channels) * num_channels * frame_size],
         px |-> payload]

ArenaBlock(memory_block, num_frames, num_channels, frame_size, payload) ==
    LET chans_block == memory_block + num_frames * SizeofFrame
        dat_block == chans_block + num_frames * num_channels * SizeofChannel
    IN  [fr |-> [i \in 1..num_frames |->
                    chans_block + (i - 1) * num_channels * SizeofChannel],
         ch |-> [k \in 1..(num_frames * num_channels) |->
                    dat_block
                        + ((k - 1) \div num_channels) * num_channels * frame_size
                        + ((k - 1) % num_channels) * frame_size],
         px |-> payload]

\* num_frames * num_channels * frame_size: a long times an unsigned char, then
\* times a size_t
total_channel_data_size_of(num_frames, num_channels, frame_size) ==
    SizeMul(SizeMul(num_frames, SizeT(num_channels)), SizeT(frame_size))

\* size of the block: Frame records, Channel records, pixel payload
total_size_of(num_frames, num_channels, frame_size) ==
    SizeAdd(SizeAdd(SizeMul(num_frames, SizeT(SizeofFrame)),
                    SizeMul(SizeMul(num_frames, SizeT(num_channels)),
                            SizeT(SizeofChannel))),
            total_channel_data_size_of(num_frames, num_channels, frame_size))

\* the descriptor loop runs for frame_idx < num_frames and writes records and
\* pointers for num_frames frames: it stays inside a block of total_size bytes
\* only if num_frames frames need exactly that many bytes
DescriptorsOverrun(num_frames, num_channels, frame_size) ==
    /\ ~LongNegative(num_frames)
    /\ WideMul(num_frames,
               LEBytes(SizeofFrame + num_channels * SizeofChannel
                           + num_channels * frame_size, 4))
          # total_size_of(num_frames, num_channels, frame_size) \o <<0, 0, 0, 0>>

\* the number of frames the descriptor loop runs for
LoopFrames(num_frames) ==
    IF LongNegative(num_frames) THEN 0 ELSE ReadLong(num_frames)

decode_S(file, env) ==
    LET opened == Fopen(NoResources)
        stored == Malloc(opened, "svideo")
        loaded == Malloc(stored, "memory_block")
    IN  IF ~env.fopen THEN Return(NULL, NoResources)
        ELSE IF ~env.malloc_store THEN Return(NULL, Fclose(opened))
        ELSE IF Len(file) < HeaderSize
             THEN Return(NULL, Fclose(Free(stored, "svideo")))
        ELSE LET num_frames == ReadLong(SubSeq(file, 1, SizeofLong))
                 num_channels == file[SizeofLong + 1]
                 height == file[SizeofLong + 2]
                 width == file[SizeofLong + 3]
                 frame_size == height * width
                 long_frames == SubSeq(file, 1, SizeofLong)
                 total_channel_data_size ==
                     total_channel_data_size_of(long_frames, num_channels, frame_size)
                 total_size == total_size_of(long_frames, num_channels, frame_size)
             IN  IF LongMulOverflows(long_frames, num_channels) /\ env.overflow = "trap"
                 THEN Return(CRASH, stored)
                 ELSE IF ~MallocGrants(env.malloc_data, total_size)
                 THEN Return(NULL, Fclose(Free(stored, "svideo")))
                 ELSE IF DescriptorsOverrun(long_frames, num_channels, frame_size)
                 THEN Return(CRASH, loaded)
                 ELSE IF ~SizeLeq(total_channel_data_size, Len(file) - HeaderSize)
                 THEN Return(NULL,
                             Fclose(Free(Free(loaded, "memory_block"), "svideo")))
                 ELSE Return([num_frames |-> num_frames, channels |-> num_channels,
                              height |-> height, width |-> width,
                              frames |-> 0,
                              block |-> ArenaBlock(0, LoopFrames(long_frames),
                                           num_channels, frame_size,
                                           SubSeq(file, HeaderSize + 1,
                                                  HeaderSize
                                                    + SizeValue(total_channel_data_size)))],
                             Fclose(loaded))

\* fwrite(channel->data, 1, channel_size, file)
ReadPixels(svideo, addr, len) ==
    SubSeq(svideo.block.px, PixelSlot(svideo, addr), PixelSlot(svideo, addr) + len - 1)

RECURSIVE encode_S_channels(_, _, _)
encode_S_channels(svideo, frame_idx, channel_idx) ==
    IF channel_idx < svideo.channels
    THEN ReadPixels(svideo, ChannelData(svideo, frame_idx, channel_idx),
                    ChannelSize(svideo))
            \o encode_S_channels(svideo, frame_idx, channel_idx + 1)
    ELSE <<>>

\* the payload region written in memory order, not through the descriptors
encode_S_frames_raw(svideo, frame_idx) == svideo.block.px

RECURSIVE encode_S_frames(_, _)
encode_S_frames(svideo, frame_idx) ==
    IF frame_idx < svideo.num_frames
    THEN encode_S_channels(svideo, frame_idx, 0) \o encode_S_frames(svideo, frame_idx + 1)
    ELSE <<>>

\* one fwrite per channel of each frame; the first that fails ends the call
encode_S(svideo, env) ==
    IF svideo = NULL THEN NotWritten
    ELSE IF ~env.fopen THEN NotWritten
    ELSE Written(Fwrite(WriteHeader(Created, svideo, env),
                        encode_S_frames(svideo, 0), env))

\* the copy back from the temporary is missing
SeqSwap_lost(s, i, j) == [s EXCEPT ![i] = s[j]]

SeqSwap(s, i, j) == [s EXCEPT ![i] = s[j], ![j] = s[i]]

\* the mirror frame record is copied over frame i and not written itself
RECURSIVE reverse_S_loop_copy(_, _, _, _)
reverse_S_loop_copy(fr, num_frames, i, to) ==
    IF i < to
    THEN reverse_S_loop_copy([fr EXCEPT ![i + 1] = fr[(num_frames - 1 - i) + 1]],
                             num_frames, i + 1, to)
    ELSE fr

\* frames i in [from, to) exchanged with their mirror frames
RECURSIVE reverse_S_loop(_, _, _, _)
reverse_S_loop(fr, num_frames, i, to) ==
    IF i < to
    THEN reverse_S_loop(SeqSwap(fr, i + 1, (num_frames - 1 - i) + 1), num_frames, i + 1, to)
    ELSE fr

\* the frames are reversed by moving the pixel payload, frame by frame
reverse_S_payload(svideo) ==
    IF svideo = NULL THEN svideo
    ELSE [svideo EXCEPT !.block.px =
            [k \in 1..Len(@) |->
                LET frame_bytes == svideo.channels * ChannelSize(svideo)
                    f == (k - 1) \div frame_bytes
                IN  @[(svideo.num_frames - 1 - f) * frame_bytes
                        + ((k - 1) % frame_bytes) + 1]]]

reverse_S(svideo) ==
    IF svideo = NULL THEN svideo
    ELSE [svideo EXCEPT !.block.fr =
            reverse_S_loop(svideo.block.fr, svideo.num_frames, 0, svideo.num_frames \div 2)]

RECURSIVE swap_channels_S_loop(_, _, _, _, _, _)
swap_channels_S_loop(svideo, ch, channel1, channel2, frame, to) ==
    IF frame < to
    THEN swap_channels_S_loop(svideo,
            SeqSwap(ch,
                ChannelSlot(svideo, FrameChannels(svideo, frame) + channel1 * SizeofChannel),
                ChannelSlot(svideo, FrameChannels(svideo, frame) + channel2 * SizeofChannel)),
            channel1, channel2, frame + 1, to)
    ELSE ch


\* video->channels is read before video is tested
swap_channels_S(svideo, channel1, channel2) ==
    IF svideo = NULL THEN CRASH
    ELSE IF channel1 >= svideo.channels \/ channel2 >= svideo.channels THEN svideo
    ELSE [svideo EXCEPT !.block.ch =
            swap_channels_S_loop(svideo, svideo.block.ch, channel1, channel2,
                                 0, svideo.num_frames)]

\* AVX2 operations on vectors of Lanes unsigned bytes
mm256_set1_epi8(b) == [j \in 1..Lanes |-> b]

mm256_loadu_si256(px, slot) == SubSeq(px, slot, slot + Lanes - 1)

\* the signed comparison of _mm256_max_epi8
SignedByte(b) == IF b >= 128 THEN b - 256 ELSE b

mm256_max_epi8(a, b) ==
    [j \in 1..Lanes |-> IF SignedByte(a[j]) > SignedByte(b[j]) THEN a[j] ELSE b[j]]

mm256_max_epu8(a, b) == [j \in 1..Lanes |-> IF a[j] > b[j] THEN a[j] ELSE b[j]]

mm256_min_epu8(a, b) == [j \in 1..Lanes |-> IF a[j] < b[j] THEN a[j] ELSE b[j]]

mm256_storeu_si256(px, slot, vec) ==
    [k \in 1..Len(px) |-> IF InRange(k, slot, Lanes) THEN vec[k - slot + 1] ELSE px[k]]

\* for (; i + 31 < channel_size; i += 32): returns <<px, i>>
RECURSIVE clip_batches(_, _, _, _, _, _)
clip_batches(px, slot, i, channel_size, min_value, max_value) ==
    IF i + (Lanes - 1) < channel_size
    THEN clip_batches(
            mm256_storeu_si256(px, slot + i,
                mm256_min_epu8(
                    mm256_max_epu8(mm256_loadu_si256(px, slot + i),
                                   mm256_set1_epi8(min_value)),
                    mm256_set1_epi8(max_value))),
            slot, i + Lanes, channel_size, min_value, max_value)
    ELSE <<px, i>>

\* for (; i < channel_size; i++) data[i] = CLAMP(data[i], min, max)
clip_tail(px, slot, i, channel_size, min_value, max_value) ==
    [k \in 1..Len(px) |->
        IF InRange(k, slot + i, channel_size - i)
        THEN CLAMP(px[k], min_value, max_value)
        ELSE px[k]]

clip_channel_S_frame(svideo, px, channel, min_value, max_value, frame_idx) ==
    LET slot == PixelSlot(svideo, ChannelData(svideo, frame_idx, channel))
        batched == clip_batches(px, slot, 0, ChannelSize(svideo), min_value, max_value)
    IN  clip_tail(batched[1], slot, batched[2], ChannelSize(svideo), min_value, max_value)

RECURSIVE clip_channel_S_loop(_, _, _, _, _, _)
clip_channel_S_loop(svideo, px, channel, min_value, max_value, frame_idx) ==
    IF frame_idx < svideo.num_frames
    THEN clip_channel_S_loop(svideo,
            clip_channel_S_frame(svideo, px, channel, min_value, max_value, frame_idx),
            channel, min_value, max_value, frame_idx + 1)
    ELSE px

clip_channel_S(svideo, channel, min_value, max_value) ==
    IF svideo = NULL THEN svideo
    ELSE IF channel >= svideo.channels THEN svideo
    ELSE [svideo EXCEPT !.block.px =
            clip_channel_S_loop(svideo, svideo.block.px, channel, min_value, max_value, 0)]

\* the channel is addressed by its place in the payload, not through the
\* descriptors
scale_channel_S_frame_inplace(svideo, px, channel, scale_factor, frame_idx) ==
    LET slot == (frame_idx * svideo.channels + channel) * ChannelSize(svideo) + 1
    IN  [k \in 1..Len(px) |->
            IF InRange(k, slot, ChannelSize(svideo)) THEN ScaleSample(px[k], scale_factor)
            ELSE px[k]]

\* both loops of scale_channel_S (32-sample chunks after a prefetch, then the
\* remainder) store CLAMP(sample * factor, 0.0f, 255.0f) converted to a byte
scale_channel_S_frame(svideo, px, channel, scale_factor, frame_idx) ==
    LET slot == PixelSlot(svideo, ChannelData(svideo, frame_idx, channel))
        channel_size == ChannelSize(svideo)
        chunked == (channel_size \div Lanes) * Lanes
    IN  [k \in 1..Len(px) |->
            IF InRange(k, slot, chunked) THEN ScaleSample(px[k], scale_factor)
            ELSE IF InRange(k, slot + chunked, channel_size - chunked)
                 THEN ScaleSample(px[k], scale_factor)
            ELSE px[k]]

RECURSIVE scale_channel_S_loop(_, _, _, _, _)
scale_channel_S_loop(svideo, px, channel, scale_factor, frame_idx) ==
    IF frame_idx < svideo.num_frames
    THEN scale_channel_S_loop(svideo,
            scale_channel_S_frame(svideo, px, channel, scale_factor, frame_idx),
            channel, scale_factor, frame_idx + 1)
    ELSE px

scale_channel_S(svideo, channel, scale_factor) ==
    IF svideo = NULL THEN svideo
    ELSE IF channel >= svideo.channels THEN svideo
    ELSE [svideo EXCEPT !.block.px =
            scale_channel_S_loop(svideo, svideo.block.px, channel, scale_factor, 0)]

\* ------------------------------------------------------------------------
\* WASM export layer (video_functions_wasm.c): the same SVideo structure,
\* decoded from and encoded to a caller-supplied buffer, transforms in chunks
\* of CHUNK_SIZE frames.
\* data is the caller's buffer, or NULL; no file is involved
decode_S_wasm(data, env) ==
    LET stored == Malloc(NoResources, "svideo")
        loaded == Malloc(stored, "memory_block")
    IN  IF data = NULL THEN Return(NULL, NoResources)
        ELSE IF Len(data) < HeaderSize THEN Return(NULL, NoResources)
        ELSE IF ~env.malloc_store THEN Return(NULL, NoResources)
        ELSE LET num_frames == ReadLong(SubSeq(data, 1, SizeofLong))
                 num_channels == data[SizeofLong + 1]
                 height == data[SizeofLong + 2]
                 width == data[SizeofLong + 3]
                 frame_size == height * width
                 long_frames == SubSeq(data, 1, SizeofLong)
                 total_channel_data_size ==
                     total_channel_data_size_of(long_frames, num_channels, frame_size)
                 total_size == total_size_of(long_frames, num_channels, frame_size)
             IN  IF LongMulOverflows(long_frames, num_channels) /\ env.overflow = "trap"
                 THEN Return(CRASH, stored)
                 ELSE IF ~SizeLeq(SizeAdd(SizeT(HeaderSize), total_channel_data_size),
                                  Len(data))
                 THEN Return(NULL, Free(stored, "svideo"))
                 ELSE IF ~MallocGrants(env.malloc_data, total_size)
                 THEN Return(NULL, Free(stored, "svideo"))
                 ELSE IF DescriptorsOverrun(long_frames, num_channels, frame_size)
                 THEN Return(CRASH, loaded)
                 \* memcpy of more bytes than the buffer has after the header
                 ELSE IF ~SizeLeq(total_channel_data_size, Len(data) - HeaderSize)
                 THEN Return(CRASH, loaded)
                 ELSE Return([num_frames |-> num_frames, channels |-> num_channels,
                              height |-> height, width |-> width,
                              frames |-> 0,
                              block |-> ArenaBlock(0, LoopFrames(long_frames),
                                           num_channels, frame_size,
                                           SubSeq(data, HeaderSize + 1,
                                                  HeaderSize
                                                    + SizeValue(total_channel_data_size)))],
                             loaded)

RECURSIVE encode_S_wasm_channels(_, _, _)
encode_S_wasm_channels(svideo, frame_idx, channel_idx) ==
    IF channel_idx < svideo.channels
    THEN ReadPixels(svideo, ChannelData(svideo, frame_idx, channel_idx),
                    ChannelSize(svideo))
            \o encode_S_wasm_channels(svideo, frame_idx, channel_idx + 1)
    ELSE <<>>

RECURSIVE encode_S_wasm_frames(_, _)
encode_S_wasm_frames(svideo, frame_idx) ==
    IF frame_idx < svideo.num_frames
    THEN encode_S_wasm_channels(svideo, frame_idx, 0)
            \o encode_S_wasm_frames(svideo, frame_idx + 1)
    ELSE <<>>

\* the returned buffer, or NULL
encode_S_wasm(svideo, env) ==
    IF svideo = NULL THEN NULL
    ELSE IF ~env.malloc THEN NULL
    ELSE WriteLong(svideo.num_frames)
            \o <<svideo.channels, svideo.height, svideo.width>>
            \o encode_S_wasm_frames(svideo, 0)

Min(a, b) == IF a < b THEN a ELSE b

\* the frame indexes the chunked loops visit, in order:
\* for (chunk_start = 0; chunk_start < limit; chunk_start += CHUNK_SIZE)
\*   for (i = chunk_start; i < min(chunk_start + CHUNK_SIZE, limit); i++)
RECURSIVE ChunkLoop(_, _, _)
ChunkLoop(limit, chunk_start, chunk_size) ==
    IF chunk_start < limit
    THEN [j \in 1..(Min(chunk_start + chunk_size, limit) - chunk_start) |->
              chunk_start + j - 1]
            \o ChunkLoop(limit, chunk_start + chunk_size, chunk_size)
    ELSE <<>>

\* for (i = chunk_start; i < chunk_end; i++) of reverse_S_wasm
RECURSIVE reverse_S_wasm_inner(_, _, _, _)
reverse_S_wasm_inner(fr, total_frames, i, chunk_end) ==
    IF i < chunk_end
    THEN reverse_S_wasm_inner(SeqSwap(fr, i + 1, (total_frames - 1 - i) + 1),
                              total_frames, i + 1, chunk_end)
    ELSE fr

\* a frame is left out between two chunks
RECURSIVE reverse_S_wasm_chunks_gap(_, _, _, _)
reverse_S_wasm_chunks_gap(fr, total_frames, chunk_start, chunk_size) ==
    IF chunk_start < total_frames \div 2
    THEN reverse_S_wasm_chunks_gap(
            reverse_S_wasm_inner(fr, total_frames, chunk_start,
                Min(chunk_start + chunk_size, total_frames \div 2)),
            total_frames, chunk_start + chunk_size + 1, chunk_size)
    ELSE fr

RECURSIVE reverse_S_wasm_chunks(_, _, _, _)
reverse_S_wasm_chunks(fr, total_frames, chunk_start, chunk_size) ==
    IF chunk_start < total_frames \div 2
    THEN reverse_S_wasm_chunks(
            reverse_S_wasm_inner(fr, total_frames, chunk_start,
                Min(chunk_start + chunk_size, total_frames \div 2)),
            total_frames, chunk_start + chunk_size, chunk_size)
    ELSE fr

\* reverse_S_wasm with CHUNK_SIZE frames per chunk
reverse_S_wasm_by(svideo, CHUNK_SIZE) ==
    IF svideo = NULL THEN svideo
    ELSE [svideo EXCEPT !.block.fr =
            reverse_S_wasm_chunks(svideo.block.fr, svideo.num_frames, 0, CHUNK_SIZE)]

reverse_S_wasm(svideo) == reverse_S_wasm_by(svideo, ReverseChunk)

RECURSIVE swap_channels_S_wasm_inner(_, _, _, _, _, _)
swap_channels_S_wasm_inner(svideo, ch, channel1, channel2, frame, chunk_end) ==
    IF frame < chunk_end
    THEN swap_channels_S_wasm_inner(svideo,
            SeqSwap(ch,
                ChannelSlot(svideo, FrameChannels(svideo, frame) + channel1 * SizeofChannel),
                ChannelSlot(svideo, FrameChannels(svideo, frame) + channel2 * SizeofChannel)),
            channel1, channel2, frame + 1, chunk_end)
    ELSE ch

RECURSIVE swap_channels_S_wasm_chunks(_, _, _, _, _, _)
swap_channels_S_wasm_chunks(svideo, ch, channel1, channel2, chunk_start, chunk_size) ==
    IF chunk_start < svideo.num_frames
    THEN swap_channels_S_wasm_chunks(svideo,
            swap_channels_S_wasm_inner(svideo, ch, channel1, channel2, chunk_start,
                Min(chunk_start + chunk_size, svideo.num_frames)),
            channel1, channel2, chunk_start + chunk_size, chunk_size)
    ELSE ch

swap_channels_S_wasm_by(svideo, channel1, channel2, CHUNK_SIZE) ==
    IF svideo = NULL THEN svideo
    ELSE IF channel1 >= svideo.channels \/ channel2 >= svideo.channels THEN svideo
    ELSE [svideo EXCEPT !.block.ch =
            swap_channels_S_wasm_chunks(svideo, svideo.block.ch, channel1, channel2,
                                        0, CHUNK_SIZE)]

swap_channels_S_wasm(svideo, channel1, channel2) ==
    swap_channels_S_wasm_by(svideo, channel1, channel2, SwapChunk)

\* the scalar loop over one channel of one frame
clip_channel_S_wasm_frame(svideo, px, channel, min_value, max_value, frame_idx) ==
    LET slot == PixelSlot(svideo, ChannelData(svideo, frame_idx, channel))
    IN  [k \in 1..Len(px) |->
            IF InRange(k, slot, ChannelSize(svideo))
            THEN CLAMP(px[k], min_value, max_value)
            ELSE px[k]]

RECURSIVE clip_channel_S_wasm_inner(_, _, _, _, _, _, _)
clip_channel_S_wasm_inner(svideo, px, channel, min_value, max_value, frame_idx, chunk_end) ==
    IF frame_idx < chunk_end
    THEN clip_channel_S_wasm_inner(svideo,
            clip_channel_S_wasm_frame(svideo, px, channel, min_value, max_value, frame_idx),
            channel, min_value, max_value, frame_idx + 1, chunk_end)
    ELSE px

RECURSIVE clip_channel_S_wasm_chunks(_, _, _, _, _, _, _)
clip_channel_S_wasm_chunks(svideo, px, channel, min_value, max_value, chunk_start, chunk_size) ==
    IF chunk_start < svideo.num_frames
    THEN clip_channel_S_wasm_chunks(svideo,
            clip_channel_S_wasm_inner(svideo, px, channel, min_value, max_value,
                chunk_start, Min(chunk_start + chunk_size, svideo.num_frames)),
            channel, min_value, max_value, chunk_start + chunk_size, chunk_size)
    ELSE px

clip_channel_S_wasm_by(svideo, channel, min_value, max_value, CHUNK_SIZE) ==
    IF svideo = NULL THEN svideo
    ELSE IF channel >= svideo.channels THEN svideo
    ELSE [svideo EXCEPT !.block.px =
            clip_channel_S_wasm_chunks(svideo, svideo.block.px, channel,
                                       min_value, max_value, 0, CHUNK_SIZE)]

clip_channel_S_wasm(svideo, channel, min_value, max_value) ==
    clip_channel_S_wasm_by(svideo, channel, min_value, max_value, ClipChunk)

\* truncation toward zero of p / den, den > 0
Truncate(p, den) == IF p >= 0 THEN p \div den ELSE -((-p) \div den)

\* (unsigned char)scaled_value: defined when the truncated value is in 0..255;
\* otherwise the conversion is undefined and the build decides: the low byte
\* of the truncated value ("wrap"), or the low byte after a conversion that
\* saturates negative values at 0 ("saturate").
CastToByte(t, mode) ==
    IF 0 <= t /\ t <= 255 THEN t
    ELSE IF mode = "saturate" /\ t < 0 THEN 0
    ELSE t % 256

\* CLAMP((unsigned char)scaled_value, 0, 255)
ScaleSampleWasm(sample, scale_factor, mode) ==
    CLAMP(CastToByte(Truncate(sample * scale_factor.num, scale_factor.den), mode), 0, 255)

scale_channel_S_wasm_frame(svideo, px, channel, scale_factor, mode, frame_idx) ==
    LET slot == PixelSlot(svideo, ChannelData(svideo, frame_idx, channel))
    IN  [k \in 1..Len(px) |->
            IF InRange(k, slot, ChannelSize(svideo))
            THEN ScaleSampleWasm(px[k], scale_factor, mode)
            ELSE px[k]]

RECURSIVE scale_channel_S_wasm_inner(_, _, _, _, _, _, _)
scale_channel_S_wasm_inner(svideo, px, channel, scale_factor, mode, frame_idx, chunk_end) ==
    IF frame_idx < chunk_end
    THEN scale_channel_S_wasm_inner(svideo,
            scale_channel_S_wasm_frame(svideo, px, channel, scale_factor, mode, frame_idx),
            channel, scale_factor, mode, frame_idx + 1, chunk_end)
    ELSE px

RECURSIVE scale_channel_S_wasm_chunks(_, _, _, _, _, _, _)
scale_channel_S_wasm_chunks(svideo, px, channel, scale_factor, mode, chunk_start, chunk_size) ==
    IF chunk_start < svideo.num_frames
    THEN scale_channel_S_wasm_chunks(svideo,
            scale_channel_S_wasm_inner(svideo, px, channel, scale_factor, mode,
                chunk_start, Min(chunk_start + chunk_size, svideo.num_frames)),
            channel, scale_factor, mode, chunk_start + chunk_size, chunk_size)
    ELSE px

scale_channel_S_wasm(svideo, channel, scale_factor, mode) ==
    IF svideo = NULL THEN svideo
    ELSE IF channel >= svideo.channels THEN svideo
    ELSE [svideo EXCEPT !.block.px =
            scale_channel_S_wasm_chunks(svideo, svideo.block.px, channel,
                                        scale_factor, mode, 0, ScaleChunk)]

\* the int the WASM transforms return: -1 when the call is rejected, else 0
reverse_S_wasm_return(svideo) ==
    IF svideo = NULL THEN -1 ELSE 0

swap_channels_S_wasm_return(svideo, channel1, channel2) ==
    IF svideo = NULL THEN -1
    ELSE IF channel1 >= svideo.channels \/ channel2 >= svideo.channels THEN -1
    ELSE 0

clip_channel_S_wasm_return(svideo, channel) ==
    IF svideo = NULL \/ channel >= svideo.channels THEN -1 ELSE 0

scale_channel_S_wasm_return(svideo, channel) ==
    IF svideo = NULL \/ channel >= svideo.channels THEN -1 ELSE 0

\* ------------------------------------------------------------------------
\* Streaming decode adapter (decode_standard_video).  The heap is a sequence
\* of blocks; a pointer is a block and a byte offset.  A block's cells are the
\* offsets written so far: a pointer value (occupying SizeofFrame bytes from
\* its offset) or a byte.
DefaultCapacity == 1000
RgbChannels == 3

Ptr(b, o) == [blk |-> b, off |-> o]

\* an indeterminate pointer value
WILD == Ptr(0, 0)

PtrAdd(p, n) == Ptr(p.blk, p.off + n)

WritePtr(cells, o, p) ==
    (o :> [k |-> "ptr", v |-> p])
        @@ [x \in (DOMAIN cells) \ (o..(o + SizeofFrame - 1)) |-> cells[x]]

WriteByte(cells, o, b) ==
    (o :> [k |-> "byte", v |-> b])
        @@ [x \in (DOMAIN cells) \
                ({o} \cup {y \in (o - SizeofFrame + 1)..(o - 1) :
                              y \in DOMAIN cells /\ cells[y].k = "ptr"}) |-> cells[x]]

ReadPtr(cells, o) ==
    IF o \in DOMAIN cells /\ cells[o].k = "ptr" THEN cells[o].v ELSE WILD

\* the RGB24 picture sws_scale delivers for the k-th frame of the source
\* (k from 0): height rows of linesize = 3 * width interleaved bytes
FrameRgb(k, height, width) ==
    [j \in 1..(height * width * RgbChannels) |-> (40 * k + j) % 256]

ArenaSize(capacity, channels, frame_size) ==
    capacity * SizeofFrame + capacity * channels * SizeofChannel
        + capacity * channels * frame_size

\* num_frames of the probe: nb_frames, else the duration estimate, else 1000
ProbedFrames(src) ==
    IF src.nb_frames # 0 THEN src.nb_frames
    ELSE IF src.has_duration THEN src.estimate
    ELSE DefaultCapacity

\* the probed count is taken as it is
InitialCapacity_unchecked(src) == ProbedFrames(src)

InitialCapacity(src) ==
    IF ProbedFrames(src) > 0 THEN ProbedFrames(src) ELSE DefaultCapacity

\* for y, for x: channels[c].data[y * width + x] = rgb[y * linesize + x * 3 + c]
RECURSIVE CopyPlane(_, _, _, _, _, _)
CopyPlane(cells, data, rgb, c, pixel_idx, dims) ==
    IF pixel_idx < dims[1] * dims[2]
    THEN LET y == pixel_idx \div dims[2]
             x == pixel_idx % dims[2]
             rgb_idx == y * (dims[2] * RgbChannels) + x * RgbChannels + c
         IN  CopyPlane(WriteByte(cells, data.off + pixel_idx, rgb[rgb_idx + 1]),
                       data, rgb, c, pixel_idx + 1, dims)
    ELSE cells

\* for c: current_frame->channels[c].data = data_block + (frame_count * 3 + c)
\* * frame_size; then the plane is copied through that pointer
RECURSIVE StoreChannels(_, _, _, _, _, _, _)
StoreChannels(cells, chans, datablk, count, rgb, c, dims) ==
    IF c < RgbChannels
    THEN LET data == PtrAdd(datablk, (count * RgbChannels + c) * (dims[1] * dims[2]))
         IN  StoreChannels(
                CopyPlane(WritePtr(cells, chans.off + c * SizeofChannel, data),
                          data, rgb, c, 0, dims),
                chans, datablk, count, rgb, c + 1, dims)
    ELSE cells

\* the frame record, its channel records and its planes written into the block
StoreFrameCells(cells, frames, chansblk, datablk, count, rgb, dims) ==
    LET chans == PtrAdd(chansblk, count * RgbChannels * SizeofChannel)
    IN  StoreChannels(WritePtr(cells, frames.off + count * SizeofFrame, chans),
                      chans, datablk, count, rgb, 0, dims)

\* ------------------------------------------------------------------------
\* The program: one input file decoded into a Flat, an Arena and a WASM store;
\* the same transform calls applied to the three; the stores encoded; the
\* written files decoded again.
VARIABLES file, video, svideo, wvideo, pre, lastOp, out, pc, nops

\* The streaming decode: the source, the heap, the SVideo record under
\* construction (sv), the locals of decode_standard_video, its position (spc),
\* the returned pointer (ret) and what happened on the way (delivered: frames
\* stored; grown: resizes done; moved: resizes that moved the block).
VARIABLES source, heap, sv, memory_block, channels_block, data_block,
          initial_capacity, frame_count, spc, ret, grown, moved

\* The Memory-lean store (mvideo), the int returned by the last int-returning
\* call of each variant (rc), what the last decode or encode call of each
\* variant left allocated and open (res), and the reads through a null pointer
\* that happened (ub).
VARIABLES mvideo, rc, res, ub

coreVars == <<file, video, svideo, wvideo, pre, lastOp, out, pc, nops>>

envVars == <<mvideo, rc, res, ub>>

streamVars == <<source, heap, sv, memory_block, channels_block, data_block,
                initial_capacity, frame_count, spc, ret, grown, moved>>

vars == <<coreVars, streamVars, envVars>>

NoSource == [nb_frames |-> 0, has_duration |-> FALSE, estimate |-> 0,
             count |-> 0, height |-> 1, width |-> 1]

NoSVideo == [num_frames |-> 0, channels |-> 0, height |-> 0, width |-> 0,
             frames |-> WILD, state |-> "none"]

StreamIdle ==
    /\ source = NoSource
    /\ heap = <<>>
    /\ sv = NoSVideo
    /\ memory_block = WILD
    /\ channels_block = WILD
    /\ data_block = WILD
    /\ initial_capacity = 0
    /\ frame_count = 0
    /\ spc = "idle"
    /\ ret = "none"
    /\ grown = 0
    /\ moved = 0

NoReturn == [flat |-> 0, arena |-> 0, wasm |-> 0, m |-> 0]

EnvIdle ==
    /\ mvideo = NULL
    /\ rc = NoReturn
    /\ res = [flat |-> NoResources, arena |-> NoResources,
              wasm |-> NoResources, m |-> NoResources]
    /\ ub = {}

CoreIdle ==
    /\ file = <<>>
    /\ video = NULL
    /\ svideo = NULL
    /\ wvideo = NULL
    /\ pre = [video |-> NULL, svideo |-> NULL, wvideo |-> NULL]
    /\ lastOp = [op |-> "none", args |-> <<>>]
    /\ out = [flat |-> <<>>, arena |-> <<>>, wasm |-> <<>>]
    /\ pc = "idle"
    /\ nops = 0

Stores == [video |-> video, svideo |-> svideo, wvideo |-> wvideo]

NoStores == [video |-> NULL, svideo |-> NULL, wvideo |-> NULL]

\* no file at either output path, no buffer returned
NoOutput == [flat |-> NULL, arena |-> NULL, wasm |-> NULL, m |-> NULL]

\* what a decode call left allocated and open
Held(d) == [live |-> d.live, open |-> d.open]

InitWith(files) ==
    /\ file \in files
    /\ video = NULL
    /\ svideo = NULL
    /\ wvideo = NULL
    /\ pre = NoStores
    /\ lastOp = [op |-> "none", args |-> <<>>]
    /\ out = NoOutput
    /\ pc = "start"
    /\ nops = 0
    /\ StreamIdle
    /\ EnvIdle

Init == InitWith({InputFile(input[1], input[2]) : input \in Inputs})

\* the four decode functions called on the input file; the caller of
\* decode_S_wasm has the file's bytes, or nothing if it could not read them
DecodeWith(env) ==
    /\ pc = "start"
    /\ video' = decode(file, env).ret
    /\ svideo' = decode_S(file, env).ret
    /\ wvideo' = decode_S_wasm(IF env.fopen THEN file ELSE NULL, env).ret
    /\ mvideo' = decode_M(file, env).ret
    /\ res' = [flat |-> Held(decode(file, env)),
               arena |-> Held(decode_S(file, env)),
               wasm |-> Held(decode_S_wasm(IF env.fopen THEN file ELSE NULL, env)),
               m |-> Held(decode_M(file, env))]
    /\ lastOp' = [op |-> "decode", args |-> <<env>>]
    /\ pc' = "run"
    /\ UNCHANGED <<file, pre, out, nops, rc, ub>>
    /\ UNCHANGED streamVars

Decode == DecodeWith(NoFault)

\* one transform call on each of the three stores, in a run of at most limit
\* such calls; wasm_return is what the WASM variant returned
Transformed(op, args, wasm_return, limit) ==
    /\ pc = "run"
    /\ nops < limit
    /\ pre' = Stores
    /\ lastOp' = [op |-> op, args |-> args]
    /\ nops' = nops + 1
    /\ rc' = [rc EXCEPT !.wasm = wasm_return]
    /\ UNCHANGED <<file, out, mvideo, res>>
    /\ UNCHANGED streamVars

ReverseWithin(limit) ==
    /\ Transformed("reverse", <<>>, reverse_S_wasm_return(wvideo), limit)
    /\ video' = reverse(video, TRUE)
    /\ svideo' = reverse_S(svideo)
    /\ wvideo' = reverse_S_wasm(wvideo)
    /\ UNCHANGED <<pc, ub>>

Reverse == ReverseWithin(MaxOps)

\* reverse cannot allocate its frame buffer: it reports the error and returns;
\* the run of the program ends here.
ReverseNoMemory ==
    /\ pc = "run"
    /\ nops < MaxOps
    /\ pre' = Stores
    /\ video' = reverse(video, FALSE)
    /\ lastOp' = [op |-> "reverse_nomem", args |-> <<>>]
    /\ pc' = "nomem"
    /\ UNCHANGED <<file, svideo, wvideo, out, nops>>
    /\ UNCHANGED streamVars
    /\ UNCHANGED envVars

\* swap_channels_S reads video->channels before it tests video: with a null
\* store the read is undefined; it traps, or it yields some value and the call
\* goes on to the test of video and returns
NullReadOutcomes == {"trap", "returns"}

SwapChannelsWithin(limit) ==
    \E a \in SwapArgs :
        /\ Transformed("swap_channels", a,
                       swap_channels_S_wasm_return(wvideo, a[1], a[2]), limit)
        /\ video' = swap_channels(video, a[1], a[2])
        /\ wvideo' = swap_channels_S_wasm(wvideo, a[1], a[2])
        /\ IF svideo = NULL
           THEN \E outcome \in NullReadOutcomes :
                    /\ ub' = ub \cup {"swap_channels_S"}
                    /\ svideo' = IF outcome = "trap"
                                 THEN swap_channels_S(svideo, a[1], a[2])
                                 ELSE svideo
                    /\ pc' = IF outcome = "trap" THEN "crashed" ELSE pc
           ELSE /\ svideo' = swap_channels_S(svideo, a[1], a[2])
                /\ UNCHANGED <<pc, ub>>

SwapChannels == SwapChannelsWithin(MaxOps)

ClipChannelWithin(limit) ==
    \E c \in ChannelArgs, b \in ClipBounds :
        /\ Transformed("clip_channel", <<c, b[1], b[2]>>,
                       clip_channel_S_wasm_return(wvideo, c), limit)
        /\ video' = clip_channel(video, c, b[1], b[2])
        /\ svideo' = clip_channel_S(svideo, c, b[1], b[2])
        /\ wvideo' = clip_channel_S_wasm(wvideo, c, b[1], b[2])
        /\ UNCHANGED <<pc, ub>>

ClipChannel == ClipChannelWithin(MaxOps)

ScaleChannel ==
    \E c \in ChannelArgs, f \in ScaleFactors, mode \in CastModes :
        /\ Transformed("scale_channel", <<c, f>>,
                       scale_channel_S_wasm_return(wvideo, c), MaxOps)
        /\ video' = scale_channel(video, c, f)
        /\ svideo' = scale_channel_S(svideo, c, f)
        /\ wvideo' = scale_channel_S_wasm(wvideo, c, f, mode)
        /\ UNCHANGED <<pc, ub>>

\* the four encode functions called on the stores
EncodeWith(env) ==
    /\ pc = "run"
    /\ out' = [flat |-> encode(video, env).file,
               arena |-> encode_S(svideo, env).file,
               wasm |-> encode_S_wasm(wvideo, env),
               m |-> encode_M(mvideo, env).file]
    /\ rc' = [rc EXCEPT !.flat = encode(video, env).ret,
                        !.arena = encode_S(svideo, env).ret,
                        !.m = encode_M(mvideo, env).ret]
    /\ lastOp' = [op |-> "encode", args |-> <<env>>]
    /\ pc' = "encoded"
    /\ UNCHANGED <<file, video, svideo, wvideo, mvideo, pre, nops, res, ub>>
    /\ UNCHANGED streamVars

Encode == EncodeWith(NoEncodeFault)

Redecode ==
    /\ pc = "encoded"
    /\ pre' = Stores
    /\ video' = decode(out.flat, NoFault).ret
    /\ svideo' = decode_S(out.arena, NoFault).ret
    /\ wvideo' = decode_S_wasm(out.wasm, NoFault).ret
    /\ mvideo' = decode_M(out.m, NoFault).ret
    /\ res' = [flat |-> Held(decode(out.flat, NoFault)),
               arena |-> Held(decode_S(out.arena, NoFault)),
               wasm |-> Held(decode_S_wasm(out.wasm, NoFault)),
               m |-> Held(decode_M(out.m, NoFault))]
    /\ lastOp' = [op |-> "redecode", args |-> <<>>]
    /\ pc' = "reloaded"
    /\ UNCHANGED <<file, out, nops, rc, ub>>
    /\ UNCHANGED streamVars

Next ==
    \/ Decode
    \/ Reverse
    \/ ReverseNoMemory
    \/ SwapChannels
    \/ ClipChannel
    \/ ScaleChannel
    \/ Encode
    \/ Redecode

Spec == Init /\ [][Next]_vars

\* ------------------------------------------------------------------------
\* The same calls when the input may be malformed and calls to the C library
\* may fail: files cut inside the header or inside the payload, a header with
\* channels = 0, a file that cannot be opened, allocations that fail, an
\* output device that fills up.
WellFormedFiles ==
    {InputFile(<<2, 2, 2, 2>>, Ramp), InputFile(<<1, 1, 4, 8>>, Spread),
     InputFile(<<0, 1, 2, 2>>, Ramp)}

\* the first keep bytes of a file
Cut(f, keep) == SubSeq(f, 1, keep)

TruncatedFiles ==
    {Cut(InputFile(<<2, 2, 2, 2>>, Ramp), keep) : keep \in {0, 7, 10, 11, 18}}

\* headers with channels = 0: no payload, or bytes after the header
ZeroChannelFiles ==
    {InputFile(<<2, 0, 2, 2>>, Ramp),
     InputFile(<<1, 0, 1, 1>>, Ramp) \o <<7, 8, 9>>}

FaultFiles == WellFormedFiles \cup TruncatedFiles \cup ZeroChannelFiles

DecodeEnvs ==
    [fopen : BOOLEAN, malloc_store : BOOLEAN, malloc_data : BOOLEAN,
     overflow : {"wrap"}]

EncodeEnvs ==
    {NoEncodeFault}
        \cup [fopen : {FALSE}, full : {FALSE}, space : {0}, malloc : {TRUE}]
        \cup [fopen : {TRUE}, full : {FALSE}, space : {0}, malloc : {FALSE}]
        \cup [fopen : {TRUE}, full : {TRUE}, space : {0, 4, 9, 11, 14}, malloc : {TRUE}]

InitFaults == InitWith(FaultFiles)

DecodeFaulty == \E env \in DecodeEnvs : DecodeWith(env)

EncodeFaulty == \E env \in EncodeEnvs : EncodeWith(env)

NextFaults ==
    \/ DecodeFaulty
    \/ Reverse
    \/ SwapChannels
    \/ ClipChannel
    \/ ScaleChannel
    \/ EncodeFaulty

SpecFaults == InitFaults /\ [][NextFaults]_vars

\* ------------------------------------------------------------------------
\* Runs of up to ScenarioOps reverse, swap_channels and clip_channel calls on
\* the 3-frame, 2-channel, 2x2 file with payload 0..23, then encode.
ScenarioOps == 3

ScenarioFile == InputFile(<<3, 2, 2, 2>>, Ramp)

InitScenario == InitWith({ScenarioFile})

ScenarioReverse == ReverseWithin(ScenarioOps)

ScenarioSwapChannels == SwapChannelsWithin(ScenarioOps)

ScenarioClipChannel == ClipChannelWithin(ScenarioOps)

NextScenario ==
    \/ Decode
    \/ ScenarioReverse
    \/ ScenarioSwapChannels
    \/ ScenarioClipChannel
    \/ Encode

SpecScenario == InitScenario /\ [][NextScenario]_vars

\* ------------------------------------------------------------------------
\* The WASM transforms run with every chunk size from 1 to MaxChunk on stores
\* of 0 to MaxChunkFrames frames.
MaxChunk == 3

MaxChunkFrames == 5

ChunkSizes == 1..MaxChunk

ChunkFiles == {InputFile(<<n, 2, 1, 2>>, Ramp) : n \in 0..MaxChunkFrames}

InitChunks == InitWith(ChunkFiles)

ChunkedReverse ==
    \E chunk \in ChunkSizes :
        /\ Transformed("reverse", <<chunk>>, reverse_S_wasm_return(wvideo), MaxOps)
        /\ wvideo' = reverse_S_wasm_by(wvideo, chunk)
        /\ UNCHANGED <<video, svideo, pc, ub>>

ChunkedSwapChannels ==
    \E a \in SwapArgs, chunk \in ChunkSizes :
        /\ Transformed("swap_channels", <<a[1], a[2], chunk>>,
                       swap_channels_S_wasm_return(wvideo, a[1], a[2]), MaxOps)
        /\ wvideo' = swap_channels_S_wasm_by(wvideo, a[1], a[2], chunk)
        /\ UNCHANGED <<video, svideo, pc, ub>>

ChunkedClipChannel ==
    \E c \in ChannelArgs, b \in ClipBounds, chunk \in ChunkSizes :
        /\ Transformed("clip_channel", <<c, b[1], b[2], chunk>>,
                       clip_channel_S_wasm_return(wvideo, c), MaxOps)
        /\ wvideo' = clip_channel_S_wasm_by(wvideo, c, b[1], b[2], chunk)
        /\ UNCHANGED <<video, svideo, pc, ub>>

NextChunks ==
    \/ Decode
    \/ ChunkedReverse
    \/ ChunkedSwapChannels
    \/ ChunkedClipChannel

SpecChunks == InitChunks /\ [][NextChunks]_vars

\* ------------------------------------------------------------------------
\* The decode functions called on files whose header holds any long and any
\* three bytes: num_frames 0, 2, -1, 2^32, 2^61, 2^63 - 1, -2^63 and -2^61,
\* with no payload or a few payload bytes after the header.
TopByte(b) == [i \in 1..SizeofLong |-> IF i = SizeofLong THEN b ELSE 0]

HeaderLongs ==
    {WriteLong(0), WriteLong(2), WriteLong(-1), <<0, 0, 0, 0, 1, 0, 0, 0>>,
     TopByte(32), [i \in 1..SizeofLong |-> IF i = SizeofLong THEN 127 ELSE 255],
     TopByte(128), TopByte(224)}

HeaderDims == {<<2, 2, 2>>, <<1, 2, 4>>, <<0, 2, 2>>, <<3, 1, 1>>, <<255, 255, 255>>}

PayloadLengths == {0, 8, 16}

HeaderFiles ==
    {n \o d \o [k \in 1..len |-> k] :
        n \in HeaderLongs, d \in HeaderDims, len \in PayloadLengths}

HeaderEnvs ==
    [fopen : {TRUE}, malloc_store : {TRUE}, malloc_data : BOOLEAN,
     overflow : SignedOverflowOutcomes]

InitHeaders == InitWith(HeaderFiles)

DecodeHeader == \E env \in HeaderEnvs : DecodeWith(env)

NextHeaders == DecodeHeader

SpecHeaders == InitHeaders /\ [][NextHeaders]_vars

\* ------------------------------------------------------------------------
\* decode_standard_video as a state machine
MaxSourceFrames == 4

StreamDims == {<<1, 1>>, <<2, 1>>}

Sources ==
    {[nb_frames |-> nb, has_duration |-> hd, estimate |-> es, count |-> n,
      height |-> d[1], width |-> d[2]] :
        nb \in 0..2, hd \in BOOLEAN, es \in {-1, 0, 1}, n \in 0..MaxSourceFrames,
        d \in StreamDims}

InitStream ==
    /\ CoreIdle
    /\ EnvIdle
    /\ source \in {src \in Sources :
                      (src.nb_frames # 0 => ~src.has_duration)
                          /\ (~src.has_duration => src.estimate = 0)}
    /\ heap = <<>>
    /\ sv = NoSVideo
    /\ memory_block = WILD
    /\ channels_block = WILD
    /\ data_block = WILD
    /\ initial_capacity = 0
    /\ frame_count = 0
    /\ spc = "open"
    /\ ret = "none"
    /\ grown = 0
    /\ moved = 0

Dims == <<source.height, source.width>>

FrameSizeS == source.height * source.width

\* the function returns value; exit names the statement it left from
Returned(exit, value) ==
    /\ spc' = exit
    /\ ret' = value

\* malloc(sizeof(SVideo)) fails: nothing was allocated, NULL is returned
OpenNoSVideo ==
    /\ spc = "open"
    /\ Returned("no_svideo", "NULL")
    /\ UNCHANGED <<source, heap, sv, memory_block, channels_block, data_block,
                   initial_capacity, frame_count, grown, moved>>
    /\ UNCHANGED coreVars
    /\ UNCHANGED envVars

\* malloc(total_size) fails: the record is freed, NULL is returned
OpenNoBlock ==
    /\ spc = "open"
    /\ sv' = [num_frames |-> 0, channels |-> RgbChannels,
              height |-> source.height, width |-> source.width,
              frames |-> WILD, state |-> "freed"]
    /\ initial_capacity' = InitialCapacity(source)
    /\ Returned("no_block", "NULL")
    /\ UNCHANGED <<source, heap, memory_block, channels_block, data_block,
                   frame_count, grown, moved>>
    /\ UNCHANGED coreVars
    /\ UNCHANGED envVars

\* the record and the block are allocated; packet is whether av_packet_alloc
\* succeeded (if not: goto cleanup, which returns svideo)
Open ==
    \E packet \in BOOLEAN :
        /\ spc = "open"
        /\ initial_capacity' = InitialCapacity(source)
        /\ heap' = <<[state |-> "live",
                      size |-> ArenaSize(InitialCapacity(source), RgbChannels, FrameSizeS),
                      cells |-> <<>>]>>
        /\ memory_block' = Ptr(1, 0)
        /\ sv' = [num_frames |-> 0, channels |-> RgbChannels,
                  height |-> source.height, width |-> source.width,
                  frames |-> Ptr(1, 0), state |-> "live"]
        /\ channels_block' = Ptr(1, InitialCapacity(source) * SizeofFrame)
        /\ data_block' = Ptr(1, InitialCapacity(source) * SizeofFrame
                                + InitialCapacity(source) * RgbChannels * SizeofChannel)
        /\ IF packet
           THEN spc' = "decoding" /\ ret' = ret
           ELSE Returned("no_packet", "svideo")
        /\ UNCHANGED <<source, frame_count, grown, moved>>
        /\ UNCHANGED coreVars
        /\ UNCHANGED envVars

\* a decoded frame arrives and there is room for it
StoreFrame ==
    /\ spc = "decoding"
    /\ frame_count < source.count
    /\ frame_count < initial_capacity
    /\ heap' = [heap EXCEPT ![memory_block.blk].cells =
                  StoreFrameCells(@, sv.frames, channels_block, data_block,
                                  frame_count,
                                  FrameRgb(frame_count, source.height, source.width),
                                  Dims)]
    /\ frame_count' = frame_count + 1
    /\ UNCHANGED <<source, sv, memory_block, channels_block, data_block,
                   initial_capacity, spc, ret, grown, moved>>
    /\ UNCHANGED coreVars
    /\ UNCHANGED envVars

\* the block after realloc(memory_block, new_total_size) succeeded: in place
\* (the same block, larger) or moved (a new block with the old bytes, the old
\* block released)
Realloc(hp, old, new_size, move) ==
    IF move
    THEN Append([hp EXCEPT ![old].state = "freed"],
                [state |-> "live", size |-> new_size,
                 cells |-> [x \in {y \in DOMAIN hp[old].cells : y < new_size} |->
                               hp[old].cells[x]]])
    ELSE [hp EXCEPT ![old].size = new_size]

\* a decoded frame arrives with frame_count >= capacity: the capacity is
\* doubled, the block resized, the three block pointers recomputed, and the
\* frame stored
GrowAndStoreFrame ==
    \E move \in BOOLEAN :
        LET capacity == initial_capacity * 2
            new_total_size == ArenaSize(capacity, RgbChannels, FrameSizeS)
            new_blk == IF move THEN Len(heap) + 1 ELSE memory_block.blk
            new_memory_block == Ptr(new_blk, 0)
            new_channels_block == PtrAdd(new_memory_block, capacity * SizeofFrame)
            new_data_block ==
                PtrAdd(new_channels_block, capacity * RgbChannels * SizeofChannel)
            resized == Realloc(heap, memory_block.blk, new_total_size, move)
        IN  /\ spc = "decoding"
            /\ frame_count < source.count
            /\ frame_count >= initial_capacity
            /\ initial_capacity' = capacity
            /\ memory_block' = new_memory_block
            /\ sv' = [sv EXCEPT !.frames = new_memory_block]
            /\ channels_block' = new_channels_block
            /\ data_block' = new_data_block
            /\ heap' = [resized EXCEPT ![new_blk].cells =
                          StoreFrameCells(@, new_memory_block, new_channels_block,
                                          new_data_block, frame_count,
                                          FrameRgb(frame_count, source.height,
                                                   source.width),
                                          Dims)]
            /\ frame_count' = frame_count + 1
            /\ grown' = grown + 1
            /\ moved' = moved + (IF move THEN 1 ELSE 0)
            /\ UNCHANGED <<source, spc, ret>>
            /\ UNCHANGED coreVars
            /\ UNCHANGED envVars

\* realloc returns NULL: goto cleanup, which returns svideo
GrowFails ==
    /\ spc = "decoding"
    /\ frame_count < source.count
    /\ frame_count >= initial_capacity
    /\ initial_capacity' = initial_capacity * 2
    /\ Returned("realloc_failed", "svideo")
    /\ UNCHANGED <<source, heap, sv, memory_block, channels_block, data_block,
                   frame_count, grown, moved>>
    /\ UNCHANGED coreVars
    /\ UNCHANGED envVars

\* avcodec_send_packet fails: break, then num_frames = frame_count
SendPacketFails ==
    /\ spc = "decoding"
    /\ frame_count < source.count
    /\ sv' = [sv EXCEPT !.num_frames = frame_count]
    /\ Returned("send_failed", "svideo")
    /\ UNCHANGED <<source, heap, memory_block, channels_block, data_block,
                   initial_capacity, frame_count, grown, moved>>
    /\ UNCHANGED coreVars
    /\ UNCHANGED envVars

\* avcodec_receive_frame fails: goto cleanup, which returns svideo
ReceiveFrameFails ==
    /\ spc = "decoding"
    /\ frame_count < source.count
    /\ Returned("receive_failed", "svideo")
    /\ UNCHANGED <<source, heap, sv, memory_block, channels_block, data_block,
                   initial_capacity, frame_count, grown, moved>>
    /\ UNCHANGED coreVars
    /\ UNCHANGED envVars

\* av_read_frame reports the end of the stream: num_frames = frame_count
EndOfStream ==
    /\ spc = "decoding"
    /\ frame_count = source.count
    /\ sv' = [sv EXCEPT !.num_frames = frame_count]
    /\ spc' = "finalized"
    /\ ret' = "svideo"
    /\ UNCHANGED <<source, heap, memory_block, channels_block, data_block,
                   initial_capacity, frame_count, grown, moved>>
    /\ UNCHANGED coreVars
    /\ UNCHANGED envVars

NextStream ==
    \/ OpenNoSVideo
    \/ OpenNoBlock
    \/ Open
    \/ StoreFrame
    \/ GrowAndStoreFrame
    \/ GrowFails
    \/ SendPacketFails
    \/ ReceiveFrameFails
    \/ EndOfStream

SpecStream == InitStream /\ [][NextStream]_vars


\* ------------------------------------------------------------------------
\* Logical content of a store: the sample of frame f, channel c, position i
\* (all 0-based), read the way the layout addresses it.
Header(v) == <<v.num_frames, v.channels, v.height, v.width>>

FlatSample(v, f, c, i) == v.data[f * FlatFrameSize(v) + c * ChannelSize(v) + i + 1]

ArenaSample(s, f, c, i) ==
    s.block.px[PixelSlot(s, ChannelData(s, f, c)) + i]

Coords(v) ==
    (0..(v.num_frames - 1)) \X (0..(v.channels - 1)) \X (0..(ChannelSize(v) - 1))

FlatContent(v) == [x \in Coords(v) |-> FlatSample(v, x[1], x[2], x[3])]

ArenaContent(s) == [x \in Coords(s) |-> ArenaSample(s, x[1], x[2], x[3])]

\* the serialized form the format prescribes for a logical content
Serialized(hdr, content) ==
    WriteLong(hdr[1]) \o <<hdr[2], hdr[3], hdr[4]>>
        \o [k \in 1..(hdr[1] * hdr[2] * hdr[3] * hdr[4]) |->
              content[<<(k - 1) \div (hdr[2] * hdr[3] * hdr[4]),
                        ((k - 1) \div (hdr[3] * hdr[4])) % hdr[2],
                        (k - 1) % (hdr[3] * hdr[4])>>]]

Did(op) == pc = "run" /\ lastOp.op = op

\* C1: decoding the file written by encode (Flat) or encode_S (Arena) gives a
\* store with the same four header fields and the same logical payload, also
\* for a store that reverse or swap_channels transformed before.
C1_RoundTrip ==
    pc = "reloaded" =>
        /\ video # NULL /\ svideo # NULL
        /\ Header(video) = Header(pre.video)
        /\ FlatContent(video) = FlatContent(pre.video)
        /\ Header(svideo) = Header(pre.svideo)
        /\ ArenaContent(svideo) = ArenaContent(pre.svideo)

C1_Witness ==
    /\ pc = "reloaded"
    /\ pre.svideo.num_frames >= 2
    /\ pre.svideo.channels >= 2
    /\ FrameChannels(pre.svideo, 0) # channels_block_of(pre.svideo)
    /\ ChannelData(pre.svideo, 0, 0) # data_block_of(pre.svideo)
    /\ pre.video.data # SubSeq(file, HeaderSize + 1, Len(file))

\* C3: clip_channel_S (32-byte min/max batches, then the scalar tail) gives,
\* element by element, the scalar CLAMP of the sample it found, for every
\* channel size and every pair of bounds.
C3_SimdScalarAgreement ==
    (Did("clip_channel") /\ lastOp.args[1] < svideo.channels) =>
        \A x \in Coords(svideo) :
            x[2] = lastOp.args[1] =>
                ArenaSample(svideo, x[1], x[2], x[3]) =
                    CLAMP(ArenaSample(pre.svideo, x[1], x[2], x[3]),
                          lastOp.args[2], lastOp.args[3])

\* C4: after every sequence of transform calls applied with the same arguments
\* to the Flat and to the Arena store of one file, encode and encode_S write
\* identical bytes.
C4_TransformEquivalence ==
    pc = "encoded" => out.flat = out.arena

\* C5: a file decoded by decode and by decode_S and serialized again with no
\* transform in between gives byte-identical files: the same 11-byte header and
\* the same payload.
C5_LayoutEquivalence ==
    (pc = "encoded" /\ nops = 0) =>
        /\ out.flat = out.arena
        /\ SubSeq(out.arena, 1, HeaderSize) = SubSeq(file, 1, HeaderSize)
        /\ out.arena = Serialized(Header(svideo), ArenaContent(svideo))

C5_Witness ==
    /\ pc = "encoded"
    /\ nops = 0
    /\ svideo.num_frames >= 2
    /\ svideo.channels >= 2
    /\ Len(out.arena) > HeaderSize

C7_ReverseInvolution ==
    Did("reverse") =>
        /\ FlatContent(reverse(video, TRUE)) = FlatContent(pre.video)
        /\ ArenaContent(reverse_S(svideo)) = ArenaContent(pre.svideo)
        /\ video.num_frames <= 1 => (video = pre.video /\ svideo = pre.svideo)

C7_Witness ==
    /\ Did("reverse")
    /\ video.num_frames >= 2
    /\ video # pre.video
    /\ svideo # pre.svideo

C7_WitnessSmall ==
    /\ Did("reverse")
    /\ video.num_frames = 1

\* C8: swap_channels(c1, c2) with c1, c2 in range applied twice restores the
\* store, and swap_channels(c, c) leaves the store unchanged, in both layouts.
C8_SwapInvolution ==
    (Did("swap_channels") /\ lastOp.args[1] < video.channels
                         /\ lastOp.args[2] < video.channels) =>
        /\ swap_channels(video, lastOp.args[1], lastOp.args[2]) = pre.video
        /\ swap_channels_S(svideo, lastOp.args[1], lastOp.args[2]) = pre.svideo
        /\ lastOp.args[1] = lastOp.args[2] =>
              (video = pre.video /\ svideo = pre.svideo)

C8_Witness ==
    /\ Did("swap_channels")
    /\ lastOp.args[1] < video.channels
    /\ lastOp.args[2] < video.channels
    /\ lastOp.args[1] # lastOp.args[2]
    /\ video.num_frames >= 2
    /\ video # pre.video
    /\ svideo # pre.svideo

\* C9 as claimed: for every pair of bounds lo, hi, a second clip_channel(c, lo,
\* hi) right after the first changes no sample (flat, arena, WASM).
C9_ClipIdempotentAnyBounds ==
    (Did("clip_channel") /\ lastOp.args[1] < video.channels) =>
        /\ clip_channel(video, lastOp.args[1], lastOp.args[2], lastOp.args[3]) = video
        /\ clip_channel_S(svideo, lastOp.args[1], lastOp.args[2], lastOp.args[3]) = svideo
        /\ clip_channel_S_wasm(wvideo, lastOp.args[1], lastOp.args[2], lastOp.args[3])
              = wvideo

\* C9 amended: for bounds lo <= hi, a second clip_channel(c, lo, hi) right after
\* the first changes no sample (flat, arena, WASM).
C9_ClipIdempotent ==
    (Did("clip_channel") /\ lastOp.args[2] <= lastOp.args[3]) =>
        C9_ClipIdempotentAnyBounds

C9_Witness ==
    /\ Did("clip_channel")
    /\ lastOp.args[1] < video.channels
    /\ lastOp.args[2] <= lastOp.args[3]
    /\ ChannelSize(video) > Lanes
    /\ video # pre.video
    /\ svideo # pre.svideo
    /\ wvideo # pre.wvideo

\* C10: after clip_channel(c, lo, hi) with lo <= hi and c in range, every sample
\* of channel c lies in [lo, hi] and a sample that was in [lo, hi] keeps its
\* value, in both layouts and for every channel size.
C10_ClipBounded ==
    (Did("clip_channel") /\ lastOp.args[1] < video.channels
                        /\ lastOp.args[2] <= lastOp.args[3]) =>
        \A x \in Coords(video) :
            x[2] = lastOp.args[1] =>
                LET lo == lastOp.args[2]
                    hi == lastOp.args[3]
                    newF == FlatSample(video, x[1], x[2], x[3])
                    oldF == FlatSample(pre.video, x[1], x[2], x[3])
                    newA == ArenaSample(svideo, x[1], x[2], x[3])
                    oldA == ArenaSample(pre.svideo, x[1], x[2], x[3])
                IN  /\ lo <= newF /\ newF <= hi
                    /\ lo <= newA /\ newA <= hi
                    /\ (lo <= oldF /\ oldF <= hi) => newF = oldF
                    /\ (lo <= oldA /\ oldA <= hi) => newA = oldA

C10_Witness ==
    /\ Did("clip_channel")
    /\ lastOp.args[1] < video.channels
    /\ lastOp.args[2] = 10 /\ lastOp.args[3] = 20
    /\ ChannelSize(video) > Lanes
    /\ \E x \in Coords(video) :
          /\ x[2] = lastOp.args[1]
          /\ ArenaSample(pre.svideo, x[1], x[2], x[3]) > 20
          /\ x[3] < Lanes
    /\ \E x \in Coords(video) :
          /\ x[2] = lastOp.args[1]
          /\ ArenaSample(pre.svideo, x[1], x[2], x[3]) \in 10..20
          /\ ArenaSample(svideo, x[1], x[2], x[3]) \in 10..20

\* C11: after scale_channel / scale_channel_S with c in range, every sample of
\* channel c is clamp(truncate-toward-zero(v * factor), 0, 255) of the sample v
\* it replaced: a product above 255 gives 255, a negative product gives 0,
\* never a wrapped value; and the rule the code applies to one sample is that
\* function for every v in 0..255 and every modelled factor.
C11_ScaleResult ==
    /\ pc = "start" =>
          \A v \in 0..255, f \in ScaleFactors :
              /\ ScaleSample(v, f) = CLAMP(Truncate(v * f.num, f.den), 0, 255)
              /\ v * f.num > 255 * f.den => ScaleSample(v, f) = 255
              /\ v * f.num < 0 => ScaleSample(v, f) = 0
    /\ (Did("scale_channel") /\ lastOp.args[1] < video.channels) =>
          \A x \in Coords(video) :
              x[2] = lastOp.args[1] =>
                  LET f == lastOp.args[2]
                      oldF == FlatSample(pre.video, x[1], x[2], x[3])
                      oldA == ArenaSample(pre.svideo, x[1], x[2], x[3])
                  IN  /\ FlatSample(video, x[1], x[2], x[3]) =
                            CLAMP(Truncate(oldF * f.num, f.den), 0, 255)
                      /\ ArenaSample(svideo, x[1], x[2], x[3]) =
                            CLAMP(Truncate(oldA * f.num, f.den), 0, 255)

\* a factor above 1 applied to a channel of more than 32 samples with a product
\* above 255 and a product that is not an integer
C11_Witness ==
    /\ Did("scale_channel")
    /\ lastOp.args[1] < video.channels
    /\ lastOp.args[2] = [num |-> 3, den |-> 2]
    /\ ChannelSize(video) > Lanes
    /\ \E x \in Coords(video) :
          /\ x[2] = lastOp.args[1]
          /\ ArenaSample(pre.svideo, x[1], x[2], x[3]) * 3 > 255 * 2
          /\ ArenaSample(svideo, x[1], x[2], x[3]) = 255
          /\ FlatSample(video, x[1], x[2], x[3]) = 255
    /\ \E x \in Coords(video) :
          /\ x[2] = lastOp.args[1]
          /\ ArenaSample(pre.svideo, x[1], x[2], x[3]) \in {y \in 1..169 : y % 2 = 1}
          /\ ArenaSample(svideo, x[1], x[2], x[3]) # ArenaSample(pre.svideo, x[1], x[2], x[3])

\* C12: swap_channels with c1 or c2 >= channels, and clip_channel or
\* scale_channel with c >= channels, on a decoded store, leave the Flat, the
\* Arena and the WASM store as they were (header, descriptors, samples), and
\* the WASM variant returns -1.
C12_OutOfRangeNoOp ==
    ((\/ Did("swap_channels") /\ (\/ lastOp.args[1] >= pre.video.channels
                                  \/ lastOp.args[2] >= pre.video.channels)
      \/ Did("clip_channel") /\ lastOp.args[1] >= pre.video.channels
      \/ Did("scale_channel") /\ lastOp.args[1] >= pre.video.channels)) =>
        /\ video = pre.video
        /\ svideo = pre.svideo
        /\ wvideo = pre.wvideo
        /\ rc.wasm = -1

\* an out-of-range call that follows a call that was applied, on a store with
\* samples
C12_Witness ==
    /\ Did("swap_channels")
    /\ lastOp.args[1] < pre.video.channels
    /\ lastOp.args[2] >= pre.video.channels
    /\ nops = 2
    /\ video.num_frames >= 2
    /\ video.data # SubSeq(file, HeaderSize + 1, Len(file))
    /\ rc.wasm = -1

\* C13: reverse, swap_channels, clip_channel and scale_channel, Flat and Arena,
\* called with a null store (whatever the channel arguments) are rejected
\* before any field of the store is read or written: no read through the null
\* pointer happens, the call returns and the stores are as before.
C13_NullStoreRejected ==
    (/\ lastOp.op \in {"reverse", "swap_channels", "clip_channel", "scale_channel"}
     /\ pre.video = NULL
     /\ pre.svideo = NULL) =>
        /\ ub = {}
        /\ pc # "crashed"
        /\ video = NULL
        /\ svideo = NULL

\* the payload length the header of a file of at least HeaderSize bytes declares
DeclaredPayload(f) ==
    ReadLong(SubSeq(f, 1, SizeofLong))
        * f[SizeofLong + 1] * f[SizeofLong + 2] * f[SizeofLong + 3]

\* the failures of a decode call: the file cannot be opened, the header or the
\* payload is cut short, the store record or the data block cannot be allocated
DecodeMustFail(f, env) ==
    \/ ~env.fopen
    \/ ~env.malloc_store
    \/ ~env.malloc_data
    \/ Len(f) < HeaderSize
    \/ Len(f) - HeaderSize < DeclaredPayload(f)

\* C14: a decode, decode_S, decode_M or decode_S_wasm call that fails (file not
\* openable, header cut short, payload cut short, store record or data block
\* not allocated) returns NULL, and a call that returns NULL holds no
\* allocation it made and has closed the file.
C14_DecodeFailureClean ==
    (pc = "run" /\ lastOp.op = "decode") =>
        /\ DecodeMustFail(file, lastOp.args[1]) =>
              (video = NULL /\ svideo = NULL /\ mvideo = NULL /\ wvideo = NULL)
        /\ video = NULL => res.flat = NoResources
        /\ svideo = NULL => res.arena = NoResources
        /\ mvideo = NULL => res.m = NoResources
        /\ wvideo = NULL => res.wasm = NoResources

\* the payload read falls short after the record and the data block were
\* allocated
C14_Witness ==
    /\ pc = "run"
    /\ lastOp.op = "decode"
    /\ lastOp.args[1] = NoFault
    /\ Len(file) > HeaderSize
    /\ Len(file) - HeaderSize < DeclaredPayload(file)
    /\ video = NULL /\ svideo = NULL /\ mvideo = NULL /\ wvideo = NULL
    /\ res.arena = NoResources

\* ------------------------------------------------------------------------
\* A pointer into the allocation the finished store owns
InFinalAllocation(p) ==
    /\ p.blk = sv.frames.blk
    /\ p.blk \in 1..Len(heap)
    /\ heap[p.blk].state = "live"
    /\ 0 <= p.off /\ p.off < heap[p.blk].size

\* frames[i].channels, read from the store's block
StreamFrameChannels(i) ==
    ReadPtr(heap[sv.frames.blk].cells, sv.frames.off + i * SizeofFrame)

\* frames[i].channels[c].data, read through frames[i].channels
StreamChannelData(i, c) ==
    ReadPtr(heap[StreamFrameChannels(i).blk].cells,
            StreamFrameChannels(i).off + c * SizeofChannel)

\* C2: a source of N frames streamed into an arena whose initial capacity is
\* smaller than N gives a final store in which every Frame Descriptor and
\* every Channel Descriptor reference of frames 0..N-1 points inside the final
\* allocation, none into a block an earlier resize released.
C2_GrowthCorrectness ==
    (spc = "finalized" /\ grown >= 1) =>
        \A i \in 0..(sv.num_frames - 1) :
            /\ InFinalAllocation(StreamFrameChannels(i))
            /\ \A c \in 0..(RgbChannels - 1) :
                  InFinalAllocation(StreamChannelData(i, c))

\* C15: when the resize of the arena fails, decode_standard_video returns no
\* store, and the SVideo record and the arena block it had built are released.
C15_GrowthFailureAborts ==
    spc = "realloc_failed" =>
        /\ ret = "NULL"
        /\ sv.state = "freed"
        /\ \A b \in 1..Len(heap) : heap[b].state = "freed"

\* C16: when encode, encode_S or encode_M returns -1 after it opened the
\* output path (the store is not null and fopen succeeded, then a header write
\* or a payload write failed), no file exists at that path after the call.
C16_FailedEncodeNoFile ==
    (pc = "encoded" /\ lastOp.args[1].fopen) =>
        /\ (video # NULL /\ rc.flat = -1) => out.flat = NULL
        /\ (svideo # NULL /\ rc.arena = -1) => out.arena = NULL
        /\ (mvideo # NULL /\ rc.m = -1) => out.m = NULL

\* C17: decoding an input whose header has channels = 0 fails and returns no
\* store, for decode, decode_S, decode_M and decode_S_wasm.
C17_ZeroChannelsRejected ==
    (/\ pc = "run"
     /\ lastOp.op = "decode"
     /\ Len(file) >= HeaderSize
     /\ file[SizeofLong + 1] = 0) =>
        (video = NULL /\ svideo = NULL /\ mvideo = NULL /\ wvideo = NULL)

\* the bytes bytes are the on-disk form of a store with header hdr whose
\* logical sample (f, ch, y, x) is sample[<<f, ch, y * width + x>>]: num_frames
\* in 8 bytes (low byte first) at offset 0, channels, height, width at offsets
\* 8, 9, 10, the samples at 11 + f*(channels*height*width) + ch*(height*width)
\* + y*width + x, and nothing else
OnDiskFormat(bytes, hdr, sample) ==
    LET num_frames == hdr[1]
        channels == hdr[2]
        height == hdr[3]
        width == hdr[4]
    IN  /\ Len(bytes) = 11 + num_frames * channels * height * width
        /\ bytes[1] = num_frames % 256
        /\ bytes[2] = (num_frames \div 256) % 256
        /\ \A k \in 3..8 : bytes[k] = 0
        /\ bytes[8 + 1] = channels
        /\ bytes[9 + 1] = height
        /\ bytes[10 + 1] = width
        /\ \A f \in 0..(num_frames - 1), ch \in 0..(channels - 1),
              y \in 0..(height - 1), x \in 0..(width - 1) :
                bytes[11 + f * (channels * height * width) + ch * (height * width)
                         + y * width + x + 1]
                    = sample[<<f, ch, y * width + x>>]

C20_ScaleByOneNoOp ==
    (/\ Did("scale_channel")
     /\ lastOp.args[1] < video.channels
     /\ lastOp.args[2] = [num |-> 1, den |-> 1]) =>
        /\ video = pre.video
        /\ svideo = pre.svideo

\* the scaled channel holds samples of 128 and more, in batches and remainder,
\* in a store an earlier call has changed
C20_Witness ==
    /\ Did("scale_channel")
    /\ lastOp.args[1] < video.channels
    /\ lastOp.args[2] = [num |-> 1, den |-> 1]
    /\ nops = 2
    /\ ChannelSize(video) > Lanes
    /\ video.data # SubSeq(file, HeaderSize + 1, Len(file))
    /\ \E x \in Coords(video) :
          /\ x[2] = lastOp.args[1]
          /\ FlatSample(video, x[1], x[2], x[3]) >= 128
          /\ ArenaSample(svideo, x[1], x[2], x[3]) >= 128

\* the payload of the scenario after reverse, after swap_channels(0, 1) and
\* after clip_channel(0, 10, 20)
ReversedPayload ==
    <<16, 17, 18, 19, 20, 21, 22, 23, 8, 9, 10, 11, 12, 13, 14, 15,
      0, 1, 2, 3, 4, 5, 6, 7>>

SwappedPayload ==
    <<20, 21, 22, 23, 16, 17, 18, 19, 12, 13, 14, 15, 8, 9, 10, 11,
      4, 5, 6, 7, 0, 1, 2, 3>>

ClippedPayload ==
    <<20, 20, 20, 20, 16, 17, 18, 19, 12, 13, 14, 15, 8, 9, 10, 11,
      10, 10, 10, 10, 0, 1, 2, 3>>

\* the Flat and the Arena store both hold payload, in logical order
BothHold(flat, arena, payload) ==
    /\ flat.data = payload
    /\ Serialized(Header(arena), ArenaContent(arena))
          = SubSeq(ScenarioFile, 1, 11) \o payload

\* C19: on the 3-frame, 2-channel, 2x2 store with payload 0..23, reverse gives
\* frames [2,1,0]; then swap_channels(0,1) exchanges the two 4-byte channel
\* blocks of each frame; then clip_channel(0,10,20) makes channel 0 of the
\* frames 20,20,20,20 / 12..15 / 10,10,10,10 and leaves channel 1; the Flat and
\* the Arena functions give these payloads and the same serialized result.
C19_Scenario ==
    /\ (Did("reverse") /\ nops = 1) =>
          BothHold(video, svideo, ReversedPayload)
    /\ (/\ Did("swap_channels") /\ lastOp.args = <<0, 1>>
        /\ BothHold(pre.video, pre.svideo, ReversedPayload)) =>
          BothHold(video, svideo, SwappedPayload)
    /\ (/\ Did("clip_channel") /\ lastOp.args = <<0, 10, 20>>
        /\ BothHold(pre.video, pre.svideo, SwappedPayload)) =>
          BothHold(video, svideo, ClippedPayload)
    /\ (pc = "encoded" /\ nops = 3 /\ BothHold(pre.video, pre.svideo, SwappedPayload)
        /\ video.data = ClippedPayload) =>
          /\ out.flat = SubSeq(ScenarioFile, 1, 11) \o ClippedPayload
          /\ out.arena = out.flat

\* the three calls of the scenario made in order, then encode
C19_Witness ==
    /\ pc = "encoded"
    /\ nops = 3
    /\ BothHold(pre.video, pre.svideo, SwappedPayload)
    /\ BothHold(video, svideo, ClippedPayload)
    /\ out.arena = SubSeq(ScenarioFile, 1, 11) \o ClippedPayload

\* ------------------------------------------------------------------------
\* byte p of plane c of the i-th picture the source delivered
SourceSample(i, c, p) ==
    FrameRgb(i, source.height, source.width)[p * RgbChannels + c + 1]

\* byte p of frames[i].channels[c].data, read through the descriptors of the
\* returned store; -1 when a pointer on the way leaves the store's allocation
\* or the cell read holds no byte (the read has no defined value)
StreamSample(i, c, p) ==
    IF ~InFinalAllocation(StreamFrameChannels(i)) THEN -1
    ELSE IF ~InFinalAllocation(StreamChannelData(i, c)) THEN -1
    ELSE LET d == PtrAdd(StreamChannelData(i, c), p)
             cells == heap[sv.frames.blk].cells
         IN  IF InFinalAllocation(d) /\ d.off \in DOMAIN cells /\ cells[d.off].k = "byte"
             THEN cells[d.off].v
             ELSE -1

\* C21: in the finalized store of a source that delivered N frames, whatever
\* the initial capacity and the number of doublings, the samples read through
\* the descriptors of frame i, channel c are plane c of the i-th delivered
\* picture, for every i < N and every c.
C21_ContentAcrossGrowth ==
    spc = "finalized" =>
        \A i \in 0..(source.count - 1), c \in 0..(RgbChannels - 1),
           p \in 0..(FrameSizeS - 1) :
            StreamSample(i, c, p) = SourceSample(i, c, p)

\* C22: when sending a packet or receiving a frame fails in mid-stream,
\* decode_standard_video returns no store.
C22_SourceErrorFails ==
    spc \in {"send_failed", "receive_failed"} => ret = "NULL"

\* the capacity and the frame count while the arena exists
C23_Counts ==
    spc \in {"decoding", "finalized", "realloc_failed", "send_failed",
             "receive_failed", "no_packet"} =>
        /\ initial_capacity >= 1
        /\ frame_count <= initial_capacity
        /\ frame_count <= source.count
        /\ spc = "finalized" => sv.num_frames = source.count

\* what one step does to the capacity and the frame count
C23_Step ==
    /\ (spc = "decoding" /\ initial_capacity' # initial_capacity) =>
          /\ initial_capacity' = 2 * initial_capacity
          /\ frame_count = initial_capacity
          /\ frame_count < source.count
    /\ frame_count' # frame_count =>
          /\ frame_count' = frame_count + 1
          /\ heap'[sv'.frames.blk].cells # heap[sv.frames.blk].cells
    /\ (spc = "decoding" /\ heap' # heap) => frame_count' = frame_count + 1

\* C23: in every state of the streaming decode capacity >= 1 and
\* frame_count <= capacity; the capacity changes only by doubling, and only
\* when a frame arrives while frame_count = capacity; frame_count grows by one
\* per stored frame; at the end num_frames is the number of frames delivered.
C23_AdapterInvariant == []C23_Counts /\ [][C23_Step]_vars

\* a finalized store whose capacity was doubled and exceeds its frame count
C23_Witness ==
    /\ spc = "finalized"
    /\ grown >= 1
    /\ sv.num_frames = source.count
    /\ sv.num_frames < initial_capacity

\* ------------------------------------------------------------------------
\* held = num_frames * per_frame, as mathematical integers
ExactBytes(long_frames, per_frame, held) ==
    IF per_frame = 0 THEN held = 0
    ELSE /\ ~LongNegative(long_frames)
         /\ WideMul(long_frames, LEBytes(per_frame, 4)) = LEBytes(held, SizeofLong + 4)

\* C24: for every header from which decode, decode_S or decode_S_wasm returns
\* a store, the Flat buffer holds exactly num_frames*channels*height*width
\* bytes and the Arena block exactly the sum of its three region sizes, as
\* mathematical integers: a size that wraps modulo 2^64 or a negative
\* num_frames never yields a store larger than its allocation.
C24_SizeMatchesHeader ==
    (pc = "run" /\ lastOp.op = "decode") =>
        LET long_frames == SubSeq(file, 1, SizeofLong)
            channels == file[SizeofLong + 1]
            frame_size == file[SizeofLong + 2] * file[SizeofLong + 3]
            arena_frame == SizeofFrame + channels * SizeofChannel + channels * frame_size
            arena_block == SizeValue(total_size_of(long_frames, channels, frame_size))
        IN  /\ video # NULL =>
                  ExactBytes(long_frames, channels * frame_size, Len(video.data))
            /\ svideo \notin {NULL, CRASH} =>
                  ExactBytes(long_frames, arena_frame, arena_block)
            /\ wvideo \notin {NULL, CRASH} =>
                  ExactBytes(long_frames, arena_frame, arena_block)

\* ------------------------------------------------------------------------
\* the addresses of the Channel arrays and of the payload slices of a block
ChannelArrays(s) ==
    {channels_block_of(s) + k * s.channels * SizeofChannel : k \in 0..(s.num_frames - 1)}

PayloadSlices(s) ==
    {data_block_of(s) + k * ChannelSize(s) : k \in 0..(s.num_frames * s.channels - 1)}

\* the (frame, channel) pairs of s map one-to-one onto the payload slices, and
\* every reference stays inside the block
DescriptorsBijective(s) ==
    LET pairs == (0..(s.num_frames - 1)) \X (0..(s.channels - 1))
        block_end == data_block_of(s) + Len(s.block.px)
    IN  /\ \A f \in 0..(s.num_frames - 1) : FrameChannels(s, f) \in ChannelArrays(s)
        /\ \A x \in pairs :
              /\ ChannelData(s, x[1], x[2]) \in PayloadSlices(s)
              /\ s.frames <= ChannelData(s, x[1], x[2])
              /\ ChannelData(s, x[1], x[2]) + ChannelSize(s) <= block_end
        /\ \A x, y \in pairs :
              x # y => ChannelData(s, x[1], x[2]) # ChannelData(s, y[1], y[2])
        /\ {ChannelData(s, x[1], x[2]) : x \in pairs} = PayloadSlices(s)

\* C25: in an Arena store built by decode_S or decode_S_wasm, after any
\* sequence of reverse, swap_channels, clip_channel and scale_channel calls,
\* (frame, channel) -> payload slice is a bijection onto the
\* num_frames*channels slices of height*width bytes, every reference inside the
\* allocation.
C25_DescriptorBijection ==
    /\ svideo \notin {NULL, CRASH} => DescriptorsBijective(svideo)
    /\ wvideo \notin {NULL, CRASH} => DescriptorsBijective(wvideo)

\* a swap_channels call on a store whose frames an earlier reverse exchanged
C25_Witness ==
    /\ Did("swap_channels")
    /\ nops = 2
    /\ svideo.num_frames >= 2
    /\ svideo.block.ch # pre.svideo.block.ch
    /\ pre.svideo.block.fr[1] > pre.svideo.block.fr[2]
    /\ DescriptorsBijective(svideo)
    /\ DescriptorsBijective(wvideo)

\* C26: reverse_S and swap_channels_S leave the pixel payload, the header
\* fields and video->frames unchanged; reverse_S changes only Frame records,
\* swap_channels_S only Channel records.
C26_DescriptorsOnly ==
    /\ (Did("reverse") /\ pre.svideo # NULL) =>
          /\ svideo.block.px = pre.svideo.block.px
          /\ svideo.block.ch = pre.svideo.block.ch
          /\ Header(svideo) = Header(pre.svideo)
          /\ svideo.frames = pre.svideo.frames
    /\ (Did("swap_channels") /\ pre.svideo # NULL) =>
          /\ svideo.block.px = pre.svideo.block.px
          /\ svideo.block.fr = pre.svideo.block.fr
          /\ Header(svideo) = Header(pre.svideo)
          /\ svideo.frames = pre.svideo.frames

\* a reverse that exchanged Frame records of a store whose Channel records an
\* earlier swap_channels exchanged
C26_Witness ==
    /\ Did("reverse")
    /\ nops = 2
    /\ svideo.block.fr # pre.svideo.block.fr
    /\ svideo.block.px = pre.svideo.block.px
    /\ \E k \in 1..(Len(svideo.block.ch) - 1) : svideo.block.ch[k] > svideo.block.ch[k + 1]

\* C27: for every sample v and every scale factor, also when v * factor is
\* above 255 or negative, scale_channel_S_wasm stores the value
\* scale_channel_S stores: clamp(truncate(v * factor), 0, 255).
C27_WasmScaleAgrees ==
    (Did("scale_channel") /\ lastOp.args[1] < svideo.channels) =>
        \A x \in Coords(svideo) :
            x[2] = lastOp.args[1] =>
                LET f == lastOp.args[2]
                    old == ArenaSample(pre.wvideo, x[1], x[2], x[3])
                IN  /\ old = ArenaSample(pre.svideo, x[1], x[2], x[3]) =>
                          ArenaSample(wvideo, x[1], x[2], x[3])
                              = ArenaSample(svideo, x[1], x[2], x[3])
                    /\ ArenaSample(wvideo, x[1], x[2], x[3])
                          = CLAMP(Truncate(old * f.num, f.den), 0, 255)

\* ------------------------------------------------------------------------
\* a chunk that holds all the frames of s
SingleChunk(s) == IF s.num_frames > 0 THEN s.num_frames ELSE 1

\* 0, 1, ..., n - 1
Ascending(n) == [j \in 1..n |-> j - 1]

\* C28: for every number of frames (0, 1, below, equal to and above the chunk
\* size, odd and even) and every chunk size >= 1, reverse_S_wasm,
\* swap_channels_S_wasm and clip_channel_S_wasm run chunk by chunk give the
\* store that a single chunk over all the frames gives, and the chunked loops
\* visit every frame index once.
C28_ChunkingNeutral ==
    /\ Did("reverse") =>
          /\ wvideo = reverse_S_wasm_by(pre.wvideo, SingleChunk(pre.wvideo))
          /\ ChunkLoop(wvideo.num_frames \div 2, 0, lastOp.args[1])
                = Ascending(wvideo.num_frames \div 2)
    /\ Did("swap_channels") =>
          /\ wvideo = swap_channels_S_wasm_by(pre.wvideo, lastOp.args[1],
                          lastOp.args[2], SingleChunk(pre.wvideo))
          /\ ChunkLoop(wvideo.num_frames, 0, lastOp.args[3])
                = Ascending(wvideo.num_frames)
    /\ Did("clip_channel") =>
          /\ wvideo = clip_channel_S_wasm_by(pre.wvideo, lastOp.args[1],
                          lastOp.args[2], lastOp.args[3], SingleChunk(pre.wvideo))
          /\ ChunkLoop(wvideo.num_frames, 0, lastOp.args[4])
                = Ascending(wvideo.num_frames)

\* five frames reversed in chunks of one frame: two chunks, the middle frame
\* in none
C28_Witness ==
    /\ Did("reverse")
    /\ lastOp.args[1] = 1
    /\ wvideo.num_frames = 5
    /\ wvideo.block.fr[1] = pre.wvideo.block.fr[5]
    /\ wvideo.block.fr[2] = pre.wvideo.block.fr[4]
    /\ wvideo.block.fr[3] = pre.wvideo.block.fr[3]
    /\ wvideo.block.fr # pre.wvideo.block.fr

\* ------------------------------------------------------------------------
\* C29: clip_channel(c, lo, hi) and scale_channel(c, f) with c in range leave
\* every sample of every other channel, in every frame, and the four header
\* fields unchanged, in both layouts, also when reverse or swap_channels moved
\* the Arena descriptors before (the channel is the one the descriptors name).
C29_OneChannelOnly ==
    ((Did("clip_channel") \/ Did("scale_channel")) /\ lastOp.args[1] < video.channels) =>
        /\ Header(video) = Header(pre.video)
        /\ Header(svideo) = Header(pre.svideo)
        /\ \A x \in Coords(video) :
              x[2] # lastOp.args[1] =>
                  /\ FlatSample(video, x[1], x[2], x[3])
                        = FlatSample(pre.video, x[1], x[2], x[3])
                  /\ ArenaSample(svideo, x[1], x[2], x[3])
                        = ArenaSample(pre.svideo, x[1], x[2], x[3])

\* a scale_channel call that changed channel c of a store of several channels
\* whose Channel records an earlier swap_channels exchanged
C29_Witness ==
    /\ Did("scale_channel")
    /\ nops = 2
    /\ lastOp.args[1] < video.channels
    /\ video.channels >= 2
    /\ \E k \in 1..(Len(pre.svideo.block.ch) - 1) :
          pre.svideo.block.ch[k] > pre.svideo.block.ch[k + 1]
    /\ \E x \in Coords(video) :
          /\ x[2] = lastOp.args[1]
          /\ ArenaSample(svideo, x[1], x[2], x[3]) # ArenaSample(pre.svideo, x[1], x[2], x[3])
          /\ FlatSample(video, x[1], x[2], x[3]) # FlatSample(pre.video, x[1], x[2], x[3])
    /\ \A x \in Coords(video) :
          x[2] # lastOp.args[1] =>
              ArenaSample(svideo, x[1], x[2], x[3]) = ArenaSample(pre.svideo, x[1], x[2], x[3])

====
